---- MODULE Spec2Model ----
(***************************************************************************)
(* Resolution and ranking engine of oakley-grocery: the preference store   *)
(* (db.py), the relevance scorer and the resolution orchestrator           *)
(* (resolver.py).                                                          *)
(*                                                                         *)
(* Representation.                                                         *)
(*   - A Python str is a sequence of one-character strings.                *)
(*   - An Optional value is a sequence of length <= 1: <<>> is None and    *)
(*     <<v>> is the value v.                                               *)
(*   - A float score is an integer number of 1/ScoreUnit; every weight and *)
(*     threshold of the source is a whole number of units and the sums are *)
(*     exact. IEEE rounding of the source's doubles is not modelled.       *)
(*   - A price is an integer number of cents.                              *)
(***************************************************************************)
EXTENDS Integers, Sequences, FiniteSets, TLC

VARIABLES
    preferences,    \* rows of table preferences, in rowid order
    pref_seq,       \* AUTOINCREMENT counter of table preferences
    pc,             \* "idle", or the entry point whose return value is in ret
    call,           \* arguments of the entry point that ran last
    ret,            \* its return value
    searches,       \* queries it passed to woolworths.search_products
    learned,        \* history: key -> stockcode of the last learn_preference,
                    \* None once the key is deleted or saved otherwise
    cache,          \* FileCache("woolworths"): key -> entry, or None
    now,            \* the wall clock, in seconds
    session,        \* woolworths._session is not None
    net,            \* what the entry point that ran last did on the network:
                    \* limiter permits acquired and HTTP requests sent
    lists,          \* rows of table lists, in rowid order
    list_items,     \* rows of table list_items, in rowid order
    item_seq,       \* AUTOINCREMENT counter of table list_items
    added,          \* history: <<list id, key>> -> the quantities added under
                    \* the key since the list last had no row for it
    orders,         \* rows of table orders, in rowid order
    order_items,    \* rows of table order_items, in rowid order
    price_history,  \* rows of table price_history, in rowid order
    trolley_calls,  \* the calls build_cart made into woolworths, in order
    window,         \* RateLimiter: ages, in ticks, of the permits it counts
    granted,        \* history: ages of the permits of the last two periods
    queue,          \* threads blocked in acquire(), longest wait first
    thread,         \* thread -> "idle", "waiting" or "acquired"
    conn,           \* process -> where its save_preference call stands
    db_writer,      \* the process that holds the write lock of the
                    \* database, or 0
    started         \* history: key -> save_preference calls begun for it

vars ==
    <<preferences, pref_seq, pc, call, ret, searches, learned, cache, now,
      session, net, lists, list_items, item_seq, added, orders, order_items,
      price_history, trolley_calls, window, granted, queue, thread, conn,
      db_writer, started>>

provider_vars == <<cache, now, session, net>>

list_vars == <<lists, list_items, item_seq, added>>

order_vars == <<orders, order_items, price_history>>

cart_vars == <<trolley_calls>>

limiter_vars == <<window, granted, queue, thread>>

conn_vars == <<conn, db_writer, started>>

\* what only build_cart, the threads of the limiter and the concurrent
\* processes change
other_vars == <<cart_vars, limiter_vars, conn_vars>>

\* what the preference store and the resolver leave alone
beyond_store == <<provider_vars, list_vars, order_vars, other_vars>>

\* what the provider client leaves alone
beyond_provider == <<list_vars, order_vars, other_vars>>

(***************************************************************************)
(* Bounds                                                                  *)
(***************************************************************************)
MaxPrefs == 2       \* rows in table preferences
MaxCount == 2       \* largest purchase_count
MaxIds == 3         \* largest preference id handed out
MaxQty == 1         \* largest quantity argument
MaxResults == 6     \* products in one provider response
MaxBatch == 2       \* requests in one resolve_list call
MaxPurchases == 14  \* largest purchase_count the scorer is given
MaxLists == 1       \* rows in table lists
MaxItemIds == 3     \* largest list item id handed out
MaxListQty == 3     \* largest quantity of a list item
MaxOrders == 1      \* rows in table orders

MaxThreads == 2     \* threads that share the rate limiter
TicksPerPeriod == 2 \* ticks of the clock of the limiter in one period

(***************************************************************************)
(* Python values                                                           *)
(***************************************************************************)
None == <<>>

Some(v) == <<v>>

\* bool(x) of an Optional[str]: None and "" are false
Truthy(opt) == opt # None /\ opt[1] # <<>>

\* (x or "")
OrEmpty(opt) == IF Truthy(opt) THEN opt[1] ELSE <<>>

\* a min() that was left out: its first argument
Unclamped(a, b) == a

Min(a, b) == IF a <= b THEN a ELSE b

\* str.lower() on one character
LowerChar(c) ==
    CASE c = "A" -> "a" [] c = "B" -> "b" [] c = "C" -> "c" [] c = "P" -> "p"
      [] c = "Q" -> "q" [] c = "S" -> "s" [] c = "T" -> "t" [] OTHER -> c

\* a lower() that was left out
LowerAsIs(s) == s

\* str.lower()
Lower(s) == [i \in 1..Len(s) |-> LowerChar(s[i])]

\* str.lstrip()
RECURSIVE LStrip(_)
LStrip(s) ==
    IF s = <<>> THEN <<>>
    ELSE IF s[1] = " " THEN LStrip(Tail(s)) ELSE s

\* str.rstrip()
RECURSIVE RStrip(_)
RStrip(s) ==
    IF s = <<>> THEN <<>>
    ELSE IF s[Len(s)] = " " THEN RStrip(SubSeq(s, 1, Len(s) - 1)) ELSE s

\* str.strip()
Strip(s) == RStrip(LStrip(s))

\* str.split(): the maximal runs of non-blank characters, left to right;
\* word is the run being read
RECURSIVE SplitFrom(_, _, _)
SplitFrom(s, i, word) ==
    IF i > Len(s) THEN (IF word = <<>> THEN <<>> ELSE <<word>>)
    ELSE IF s[i] = " "
    THEN (IF word = <<>> THEN <<>> ELSE <<word>>) \o SplitFrom(s, i + 1, <<>>)
    ELSE SplitFrom(s, i + 1, Append(word, s[i]))

\* set(str.split())
SplitSet(s) ==
    LET words == SplitFrom(s, 1, <<>>)
    IN  {words[k] : k \in 1..Len(words)}

\* a in b, for two str
IsSubstr(a, b) ==
    \E i \in 0..(Len(b) - Len(a)) : SubSeq(b, i + 1, i + Len(a)) = a

\* f"{a} {b}"
Join(a, b) == a \o <<" ">> \o b

(***************************************************************************)
(* resolver.py: tokens, Jaccard, relevance                                 *)
(***************************************************************************)
ScoreUnit == 8400

_tokenize(text) == IF text = <<>> THEN {} ELSE SplitSet(Lower(text))

\* the share of the first set that is in the second
_overlap_of_first(a, b) ==
    IF a = {} \/ b = {} THEN 0
    ELSE (ScoreUnit * Cardinality(a \cap b)) \div Cardinality(a)

_jaccard(a, b) ==
    IF a = {} \/ b = {} THEN 0
    ELSE LET intersection == Cardinality(a \cap b)
             union == Cardinality(a \cup b)
         IN  IF union # 0 THEN (ScoreUnit * intersection) \div union ELSE 0

\* a minimum score of one half
MinScoreOfHalf == (5 * ScoreUnit) \div 10

AUTO_RESOLVE_MIN_SCORE == (4 * ScoreUnit) \div 10

AUTO_RESOLVE_GAP == (1 * ScoreUnit) \div 10

\* a fuzzy threshold of one half
FuzzyAtHalf == (5 * ScoreUnit) \div 10

FUZZY_MIN_OVERLAP == (6 * ScoreUnit) \div 10

(***************************************************************************)
(* db.py: table preferences                                                *)
(***************************************************************************)
\* a key that is lower-cased but not trimmed
NormalizeNoStrip(generic_name) == Lower(generic_name)

\* generic_name.lower().strip()
Normalize(generic_name) == Strip(Lower(generic_name))

\* a lookup by the name as it was typed
get_preference_as_typed(prefs, generic_name) ==
    LET hits == {i \in 1..Len(prefs) : prefs[i].generic_name = generic_name}
    IN  IF hits = {} THEN None
        ELSE Some(prefs[CHOOSE i \in hits : \A j \in hits : i <= j])

get_preference(prefs, generic_name) ==
    LET key == Normalize(generic_name)
        hits == {i \in 1..Len(prefs) : prefs[i].generic_name = key}
    IN  IF hits = {} THEN None
        ELSE Some(prefs[CHOOSE i \in hits : \A j \in hits : i <= j])

\* ORDER BY purchase_count DESC; rows of equal count stay in rowid order
RECURSIVE OrderByCountDesc(_)
OrderByCountDesc(rows) ==
    IF rows = <<>> THEN <<>>
    ELSE LET best == CHOOSE i \in 1..Len(rows) :
                        /\ \A j \in 1..Len(rows) :
                              rows[j].purchase_count <= rows[i].purchase_count
                        /\ \A j \in 1..(i - 1) :
                              rows[j].purchase_count < rows[i].purchase_count
         IN  <<rows[best]>> \o
             OrderByCountDesc(SubSeq(rows, 1, best - 1) \o
                              SubSeq(rows, best + 1, Len(rows)))

\* a SELECT without its ORDER BY
get_all_preferences_unordered(prefs) == prefs

get_all_preferences(prefs) == OrderByCountDesc(prefs)

\* a column that takes the given value even when it is NULL
OverwriteColumn(value, column) == value

\* COALESCE(?, last_price): the given value unless it is NULL
COALESCE(value, column) == IF value # None THEN value ELSE column

\* INSERT or UPDATE of one preference; the row id is returned
save_preference(prefs, seq, generic_name, stockcode, product_name, brand, package_size, price) ==
    LET generic == Normalize(generic_name)
        existing == get_preference(prefs, generic)
    IN  IF existing # None
        THEN [prefs |->
                [i \in 1..Len(prefs) |->
                    IF prefs[i].generic_name = generic
                    THEN [prefs[i] EXCEPT
                            !.stockcode = stockcode,
                            !.product_name = product_name,
                            !.brand = brand,
                            !.package_size = package_size,
                            !.purchase_count = @ + 1,
                            !.last_price = COALESCE(price, @)]
                    ELSE prefs[i]],
              seq |-> seq,
              id |-> existing[1].id]
        ELSE [prefs |->
                Append(prefs,
                       [id |-> seq + 1,
                        generic_name |-> generic,
                        stockcode |-> stockcode,
                        product_name |-> product_name,
                        brand |-> brand,
                        package_size |-> package_size,
                        purchase_count |-> 1,
                        last_price |-> price]),
              seq |-> seq + 1,
              id |-> seq + 1]

\* the INSERT of save_preference alone, as it runs when the SELECT before it
\* found no row. ok is FALSE when sqlite3.IntegrityError leaves the call:
\* generic_name is UNIQUE.
save_preference_insert(prefs, seq, generic, stockcode, product_name, brand, package_size, price) ==
    IF \E i \in 1..Len(prefs) : prefs[i].generic_name = generic
    THEN [ok |-> FALSE, prefs |-> prefs, seq |-> seq, id |-> 0]
    ELSE [ok |-> TRUE,
          prefs |-> Append(prefs,
                       [id |-> seq + 1,
                        generic_name |-> generic,
                        stockcode |-> stockcode,
                        product_name |-> product_name,
                        brand |-> brand,
                        package_size |-> package_size,
                        purchase_count |-> 1,
                        last_price |-> price]),
          seq |-> seq + 1, id |-> seq + 1]

\* the UPDATE of save_preference alone, as it runs when the SELECT before
\* it found a row: the count is raised by the statement itself
save_preference_update(prefs, generic, stockcode, product_name, brand, package_size, price) ==
    [i \in 1..Len(prefs) |->
        IF prefs[i].generic_name = generic
        THEN [prefs[i] EXCEPT
                !.stockcode = stockcode,
                !.product_name = product_name,
                !.brand = brand,
                !.package_size = package_size,
                !.purchase_count = @ + 1,
                !.last_price = COALESCE(price, @)]
        ELSE prefs[i]]

\* DELETE FROM preferences WHERE generic_name = ?
delete_preference(prefs, generic_name) ==
    LET key == Normalize(generic_name)
        kept == {i \in 1..Len(prefs) : prefs[i].generic_name # key}
        RECURSIVE Keep(_)
        Keep(i) == IF i > Len(prefs) THEN <<>>
                   ELSE (IF i \in kept THEN <<prefs[i]>> ELSE <<>>) \o Keep(i + 1)
    IN  [prefs |-> Keep(1), deleted |-> Cardinality(kept) < Len(prefs)]

(***************************************************************************)
(* resolver.py: relevance of one product                                   *)
(***************************************************************************)
\* a penalty that was left out
Unhalved(score) == score

\* score *= 0.5
Halved(score) == (score * 5) \div 10

\* the scorer, had it taken the purchase history of the candidate's product
\* under whatever name it was bought
_calculate_relevance_history_by_stockcode(product, generic_name, prefer_brand, prefer_size, prefs) ==
    LET query_tokens == _tokenize(generic_name)
        name_tokens == _tokenize(product.name)
        name_score == (_jaccard(query_tokens, name_tokens) * 4) \div 10
        brand_score ==
            IF Truthy(prefer_brand)
            THEN LET product_brand == Lower(OrEmpty(product.brand))
                     wanted == Lower(prefer_brand[1])
                 IN  IF IsSubstr(wanted, product_brand)
                        \/ IsSubstr(product_brand, wanted)
                     THEN (2 * ScoreUnit) \div 10
                     ELSE IF product_brand # <<>>
                     THEN (_jaccard(_tokenize(prefer_brand[1]),
                                    _tokenize(product_brand)) * 2) \div 10
                     ELSE 0
            ELSE 0
        size_score ==
            IF Truthy(prefer_size)
            THEN LET product_size == Lower(OrEmpty(product.package_size))
                     wanted == Lower(prefer_size[1])
                 IN  IF IsSubstr(wanted, product_size)
                        \/ IsSubstr(product_size, wanted)
                     THEN (15 * ScoreUnit) \div 100
                     ELSE 0
            ELSE 0
        bought == {i \in 1..Len(prefs) : prefs[i].stockcode = product.stockcode}
        pref == IF bought = {} THEN None
                ELSE Some(prefs[CHOOSE i \in bought : \A k \in bought : i <= k])
        history_score ==
            IF pref # None /\ pref[1].stockcode = product.stockcode
            THEN LET frequency_bonus ==
                        Min((pref[1].purchase_count * ScoreUnit) \div 10,
                            ScoreUnit)
                 IN  (frequency_bonus * 15) \div 100
            ELSE 0
        special_score == IF product.on_special THEN (5 * ScoreUnit) \div 100
                         ELSE 0
        total == name_score + brand_score + size_score + history_score
                 + special_score
        score == IF ~product.available THEN Halved(total) ELSE total
    IN  Min(score, ScoreUnit)

_calculate_relevance(product, generic_name, prefer_brand, prefer_size, prefs) ==
    LET query_tokens == _tokenize(generic_name)
        name_tokens == _tokenize(product.name)
        name_score == (_jaccard(query_tokens, name_tokens) * 4) \div 10
        brand_score ==
            IF Truthy(prefer_brand)
            THEN LET product_brand == Lower(OrEmpty(product.brand))
                     wanted == Lower(prefer_brand[1])
                 IN  IF IsSubstr(wanted, product_brand)
                        \/ IsSubstr(product_brand, wanted)
                     THEN (2 * ScoreUnit) \div 10
                     ELSE IF product_brand # <<>>
                     THEN (_jaccard(_tokenize(prefer_brand[1]),
                                    _tokenize(product_brand)) * 2) \div 10
                     ELSE 0
            ELSE 0
        size_score ==
            IF Truthy(prefer_size)
            THEN LET product_size == Lower(OrEmpty(product.package_size))
                     wanted == Lower(prefer_size[1])
                 IN  IF IsSubstr(wanted, product_size)
                        \/ IsSubstr(product_size, wanted)
                     THEN (15 * ScoreUnit) \div 100
                     ELSE 0
            ELSE 0
        pref == get_preference(prefs, generic_name)
        history_score ==
            IF pref # None /\ pref[1].stockcode = product.stockcode
            THEN LET frequency_bonus ==
                        Min((pref[1].purchase_count * ScoreUnit) \div 10,
                            ScoreUnit)
                 IN  (frequency_bonus * 15) \div 100
            ELSE 0
        special_score == IF product.on_special THEN (5 * ScoreUnit) \div 100
                         ELSE 0
        total == name_score + brand_score + size_score + history_score
                 + special_score
        score == IF ~product.available THEN Halved(total) ELSE total
    IN  Min(score, ScoreUnit)

(***************************************************************************)
(* resolver.py: resolve_item                                               *)
(***************************************************************************)
CandidateLimit == 5

\* the product dict built from a preference row
PreferenceProduct(p) ==
    [stockcode |-> p.stockcode,
     name |-> p.product_name,
     brand |-> p.brand,
     package_size |-> p.package_size,
     price |-> p.last_price]

\* {**p, "_score": score}
Scored(p, s) ==
    [stockcode |-> p.stockcode, name |-> p.name, brand |-> p.brand,
     package_size |-> p.package_size, price |-> p.price,
     on_special |-> p.on_special, available |-> p.available, score |-> s]

\* a descending sort that puts the later of two equal scores first
RECURSIVE SortByScoreUnstable(_)
SortByScoreUnstable(scored) ==
    IF scored = <<>> THEN <<>>
    ELSE LET best == CHOOSE i \in 1..Len(scored) :
                        /\ \A j \in 1..Len(scored) :
                              scored[j].score <= scored[i].score
                        /\ \A j \in (i + 1)..Len(scored) :
                              scored[j].score < scored[i].score
         IN  <<scored[best]>> \o
             SortByScoreUnstable(SubSeq(scored, 1, best - 1) \o
                                 SubSeq(scored, best + 1, Len(scored)))

\* scored.sort(key=lambda x: x["_score"], reverse=True): stable
RECURSIVE SortByScoreDesc(_)
SortByScoreDesc(scored) ==
    IF scored = <<>> THEN <<>>
    ELSE LET best == CHOOSE i \in 1..Len(scored) :
                        /\ \A j \in 1..Len(scored) :
                              scored[j].score <= scored[i].score
                        /\ \A j \in 1..(i - 1) :
                              scored[j].score < scored[i].score
         IN  <<scored[best]>> \o
             SortByScoreDesc(SubSeq(scored, 1, best - 1) \o
                             SubSeq(scored, best + 1, Len(scored)))

\* candidates that are not cut to five
AllCandidates(scored) == scored

\* scored[:5]
TopCandidates(scored) == SubSeq(scored, 1, Min(CandidateLimit, Len(scored)))

\* the first preference, in get_all_preferences order, that overlaps the query
FuzzyMatch(all_prefs, generic) ==
    LET hits == {i \in 1..Len(all_prefs) :
                    _jaccard(_tokenize(generic),
                             _tokenize(all_prefs[i].generic_name))
                        >= FUZZY_MIN_OVERLAP}
    IN  IF hits = {} THEN None
        ELSE Some(all_prefs[CHOOSE i \in hits : \A j \in hits : i <= j])

\* the query handed to woolworths.search_products
SearchQuery(generic, prefer_brand, prefer_size) ==
    LET with_brand == IF Truthy(prefer_brand)
                      THEN Join(prefer_brand[1], generic) ELSE generic
    IN  IF Truthy(prefer_size) THEN Join(with_brand, prefer_size[1])
        ELSE with_brand

\* the dict resolve_item returns
Result(resolved, product, candidates, source, generic, quantity) ==
    [resolved |-> resolved, product |-> product, candidates |-> candidates,
     source |-> source, generic_name |-> generic, quantity |-> quantity]

\* a search failure that is not caught
Reraise(generic, quantity) == None

\* except RuntimeError: the failure becomes a returned dict. A call returns
\* Some(dict); None stands for an exception leaving the call.
ExceptRuntimeError(generic, quantity) ==
    Some(Result(FALSE, None, <<>>, "unresolved", generic, quantity))

\* provider is the outcome of woolworths.search_products for this call:
\* ok = FALSE when it raises RuntimeError, else the products it returns.
\* The value holds what the call returns and the queries it sent.
resolve_item(prefs, generic_name, quantity, prefer_brand, prefer_size, provider) ==
    LET generic == Strip(Lower(generic_name))
        pref == get_preference(prefs, generic)
        fuzzy == FuzzyMatch(get_all_preferences(prefs), generic)
        search_query == SearchQuery(generic, prefer_brand, prefer_size)
        products == provider.products
        scored == SortByScoreDesc(
                    [i \in 1..Len(products) |->
                        Scored(products[i],
                               _calculate_relevance(products[i], generic,
                                    prefer_brand, prefer_size, prefs))])
        top == scored[1]
        gap == IF Len(scored) > 1 THEN top.score - scored[2].score
               ELSE ScoreUnit
    IN  IF pref # None
        THEN [ret |-> Some(Result(TRUE, Some(PreferenceProduct(pref[1])),
                                  <<>>, "preference", generic, quantity)),
              searches |-> <<>>]
        ELSE IF fuzzy # None
        THEN [ret |-> Some(Result(TRUE, Some(PreferenceProduct(fuzzy[1])),
                                  <<>>, "preference", generic, quantity)),
              searches |-> <<>>]
        ELSE IF ~provider.ok
        THEN [ret |-> ExceptRuntimeError(generic, quantity),
              searches |-> <<search_query>>]
        ELSE IF products = <<>>
        THEN [ret |-> Some(Result(FALSE, None, <<>>, "unresolved", generic,
                                  quantity)),
              searches |-> <<search_query>>]
        ELSE IF top.score >= AUTO_RESOLVE_MIN_SCORE /\ gap >= AUTO_RESOLVE_GAP
        THEN [ret |-> Some(Result(TRUE, Some(top), TopCandidates(scored),
                                  "search", generic, quantity)),
              searches |-> <<search_query>>]
        ELSE [ret |-> Some(Result(FALSE, None, TopCandidates(scored),
                                  "unresolved", generic, quantity)),
              searches |-> <<search_query>>]

\* items are dicts; quantity, prefer_brand and prefer_size may be missing.
\* providers[i] is the outcome of the provider call made for items[i].
\* An exception leaving resolve_item leaves resolve_list too.
RECURSIVE resolve_list_from(_, _, _, _, _)
resolve_list_from(prefs, items, providers, i, acc) ==
    IF i > Len(items) THEN [ret |-> Some(acc.results), searches |-> acc.searches]
    ELSE LET item == items[i]
             one == resolve_item(prefs, item.generic_name,
                        IF item.quantity = None THEN 1 ELSE item.quantity[1],
                        item.prefer_brand, item.prefer_size, providers[i])
         IN  IF one.ret = None
             THEN [ret |-> None, searches |-> acc.searches \o one.searches]
             ELSE resolve_list_from(prefs, items, providers, i + 1,
                    [results |-> Append(acc.results, one.ret[1]),
                     searches |-> acc.searches \o one.searches])

\* a batch that stops at the first item left unresolved
resolve_list_until_failure(prefs, items, providers) ==
    LET whole == resolve_list_from(prefs, items, providers, 1,
                                   [results |-> <<>>, searches |-> <<>>])
        bad == {i \in 1..Len(whole.ret[1]) : ~whole.ret[1][i].resolved}
    IN  IF whole.ret = None \/ bad = {} THEN whole
        ELSE [ret |-> Some(SubSeq(whole.ret[1], 1,
                            (CHOOSE i \in bad : \A j \in bad : i <= j) - 1)),
              searches |-> whole.searches]

resolve_list(prefs, items, providers) ==
    resolve_list_from(prefs, items, providers, 1,
                      [results |-> <<>>, searches |-> <<>>])

learn_preference(prefs, seq, generic_name, stockcode, product_name, brand, package_size, price) ==
    save_preference(prefs, seq, generic_name, stockcode, product_name, brand,
                    package_size, price)

\* a resolver that saves the first product it resolved from a search
resolver_saves_resolved(prefs, seq, results) ==
    LET hits == {i \in 1..Len(results) : results[i].source = "search"}
        first == results[CHOOSE i \in hits : \A j \in hits : i <= j]
        saved == save_preference(prefs, seq, first.generic_name,
                    first.product[1].stockcode, first.product[1].name,
                    first.product[1].brand, first.product[1].package_size,
                    first.product[1].price)
    IN  IF hits = {} THEN [prefs |-> prefs, seq |-> seq]
        ELSE [prefs |-> saved.prefs, seq |-> saved.seq]

\* the store after a resolution that returned results: resolver.py reaches
\* the store through db.get_preference and db.get_all_preferences, and
\* learn_preference is the one function of the module that writes
resolver_store_after(prefs, seq, results) == [prefs |-> prefs, seq |-> seq]

(***************************************************************************)
(* db.py: tables lists, list_items, orders, order_items, price_history     *)
(***************************************************************************)
\* SELECT * FROM lists WHERE id = ? LIMIT 1
get_list(lsts, list_id) ==
    LET hits == {i \in 1..Len(lsts) : lsts[i].id = list_id}
    IN  IF hits = {} THEN None ELSE Some(lsts[CHOOSE i \in hits : TRUE])

\* INSERT INTO lists (name): no row of lists is ever deleted here, so the
\* next AUTOINCREMENT id is the number of rows plus one
create_list(lsts, name) ==
    [ret |-> Len(lsts) + 1,
     lists |-> Append(lsts, [id |-> Len(lsts) + 1, name |-> name,
                             status |-> "active", total_estimate |-> None])]

\* UPDATE lists SET status = ?, and total_estimate when it is given
update_list_status(lsts, list_id, status, total_estimate) ==
    [i \in 1..Len(lsts) |->
        IF lsts[i].id # list_id THEN lsts[i]
        ELSE IF total_estimate # None
        THEN [lsts[i] EXCEPT !.status = status,
                             !.total_estimate = total_estimate]
        ELSE [lsts[i] EXCEPT !.status = status]]

\* SELECT * FROM list_items WHERE list_id = ? ORDER BY id ASC
get_list_items(items, list_id) ==
    LET OfList(r) == r.list_id = list_id
    IN  SelectSeq(items, OfList)

\* add_list_item, had it looked the name up as typed
add_list_item_as_typed(lsts, items, seq, list_id, generic_name, quantity, unit) ==
    LET existing == {i \in 1..Len(items) :
                        /\ items[i].list_id = list_id
                        /\ items[i].generic_name = generic_name}
        first == CHOOSE i \in existing : \A k \in existing : i <= k
    IN  IF existing # {}
        THEN [ret |-> Some(items[first].id), seq |-> seq,
              items |-> [items EXCEPT ![first].quantity = @ + quantity]]
        ELSE IF get_list(lsts, list_id) = None
        THEN [ret |-> None, seq |-> seq, items |-> items]
        ELSE [ret |-> Some(seq + 1), seq |-> seq + 1,
              items |-> Append(items,
                    [id |-> seq + 1, list_id |-> list_id,
                     generic_name |-> Strip(Lower(generic_name)),
                     quantity |-> quantity,
                     unit |-> unit, stockcode |-> None,
                     product_name |-> None, price |-> None, resolved |-> 0,
                     checked |-> 0])]

\* the row of the list with that name has its quantity raised, or else a row
\* is inserted. ret is None when sqlite3.IntegrityError leaves the call: the
\* connection has foreign_keys=ON and list_items.list_id references lists.
add_list_item(lsts, items, seq, list_id, generic_name, quantity, unit) ==
    LET generic == Strip(Lower(generic_name))
        existing == {i \in 1..Len(items) :
                        /\ items[i].list_id = list_id
                        /\ items[i].generic_name = generic}
        first == CHOOSE i \in existing : \A k \in existing : i <= k
    IN  IF existing # {}
        THEN [ret |-> Some(items[first].id), seq |-> seq,
              items |-> [items EXCEPT ![first].quantity = @ + quantity]]
        ELSE IF get_list(lsts, list_id) = None
        THEN [ret |-> None, seq |-> seq, items |-> items]
        ELSE [ret |-> Some(seq + 1), seq |-> seq + 1,
              items |-> Append(items,
                    [id |-> seq + 1, list_id |-> list_id,
                     generic_name |-> generic, quantity |-> quantity,
                     unit |-> unit, stockcode |-> None,
                     product_name |-> None, price |-> None, resolved |-> 0,
                     checked |-> 0])]

\* update_list_item(item_id, stockcode=, product_name=, price=, resolved=1),
\* the call _resolve_list_items makes for a resolved item
update_list_item(items, item_id, stockcode, product_name, price) ==
    [ret |-> \E i \in 1..Len(items) : items[i].id = item_id,
     items |-> [i \in 1..Len(items) |->
                  IF items[i].id # item_id THEN items[i]
                  ELSE [items[i] EXCEPT !.stockcode = stockcode,
                                        !.product_name = product_name,
                                        !.price = price,
                                        !.resolved = 1]]]

\* DELETE FROM list_items WHERE list_id = ? AND generic_name = ?
remove_list_item(items, list_id, generic_name) ==
    LET generic == Strip(Lower(generic_name))
        Stays(r) == ~(r.list_id = list_id /\ r.generic_name = generic)
    IN  [ret |-> \E i \in 1..Len(items) : ~Stays(items[i]),
         items |-> SelectSeq(items, Stays)]

\* INSERT INTO orders; no order is ever deleted
create_order(ords, list_id, total_estimate, total_paid, item_count, notes) ==
    [ret |-> Len(ords) + 1,
     orders |-> Append(ords, [id |-> Len(ords) + 1, list_id |-> list_id,
                              total_estimate |-> total_estimate,
                              total_paid |-> total_paid,
                              item_count |-> item_count,
                              store |-> "woolworths", notes |-> notes])]

\* INSERT INTO order_items
add_order_item(ord_items, order_id, generic_name, stockcode, product_name, brand, quantity, price, on_special) ==
    Append(ord_items, [id |-> Len(ord_items) + 1, order_id |-> order_id,
                       generic_name |-> generic_name, stockcode |-> stockcode,
                       product_name |-> product_name, brand |-> brand,
                       quantity |-> quantity, price |-> price,
                       on_special |-> IF on_special THEN 1 ELSE 0])

\* INSERT INTO price_history
record_price(prices, stockcode, product_name, price) ==
    Append(prices, [id |-> Len(prices) + 1, stockcode |-> stockcode,
                    product_name |-> product_name, price |-> price,
                    on_special |-> 0])

(***************************************************************************)
(* lists.py: mark_purchased                                                *)
(***************************************************************************)
\* sum((i.get("price") or 0) * i.get("quantity", 1) for i in items)
RECURSIVE TotalEstimate(_)
TotalEstimate(items) ==
    IF items = <<>> THEN 0
    ELSE (IF items[1].price # None THEN items[1].price[1] ELSE 0)
            * items[1].quantity
         + TotalEstimate(Tail(items))

\* item.get("stockcode"): a missing stockcode is false, and so is 0
HasStockcode(item) == item.stockcode # None /\ item.stockcode[1] # 0

\* the loop, had it counted every row of the list as logged
RECURSIVE mark_purchased_counting_all(_, _, _, _, _, _, _, _)
mark_purchased_counting_all(prefs, seq, ord_items, prices, order_id, items, i, items_logged) ==
    IF i > Len(items)
    THEN [prefs |-> prefs, seq |-> seq, order_items |-> ord_items,
          price_history |-> prices, items_logged |-> Len(items)]
    ELSE LET item == items[i]
             name == IF Truthy(item.product_name) THEN item.product_name[1]
                     ELSE item.generic_name
             saved == save_preference(prefs, seq, item.generic_name,
                        item.stockcode[1], name, None, None, item.price)
             logged == add_order_item(ord_items, order_id, item.generic_name,
                        item.stockcode, item.product_name, None,
                        item.quantity, item.price, FALSE)
             priced == IF item.price # None
                       THEN record_price(prices, item.stockcode[1], name,
                                         item.price[1])
                       ELSE prices
         IN  IF HasStockcode(item)
             THEN mark_purchased_counting_all(saved.prefs, saved.seq, logged,
                        priced, order_id, items, i + 1, items_logged + 1)
             ELSE mark_purchased_counting_all(prefs, seq, ord_items, prices,
                        order_id, items, i + 1, items_logged)

\* the loop over the rows of list_items: a row with a stockcode is logged
\* to order_items, saved as a preference under its product name or else its
\* generic name, with its price and without brand and package size, and its
\* price, if it has one, is recorded
RECURSIVE mark_purchased_from(_, _, _, _, _, _, _, _)
mark_purchased_from(prefs, seq, ord_items, prices, order_id, items, i, items_logged) ==
    IF i > Len(items)
    THEN [prefs |-> prefs, seq |-> seq, order_items |-> ord_items,
          price_history |-> prices, items_logged |-> items_logged]
    ELSE LET item == items[i]
             name == IF Truthy(item.product_name) THEN item.product_name[1]
                     ELSE item.generic_name
             saved == save_preference(prefs, seq, item.generic_name,
                        item.stockcode[1], name, None, None, item.price)
             logged == add_order_item(ord_items, order_id, item.generic_name,
                        item.stockcode, item.product_name, None,
                        item.quantity, item.price, FALSE)
             priced == IF item.price # None
                       THEN record_price(prices, item.stockcode[1], name,
                                         item.price[1])
                       ELSE prices
         IN  IF HasStockcode(item)
             THEN mark_purchased_from(saved.prefs, saved.seq, logged, priced,
                        order_id, items, i + 1, items_logged + 1)
             ELSE mark_purchased_from(prefs, seq, ord_items, prices, order_id,
                        items, i + 1, items_logged)

\* tables is the record of the tables the function reads and writes:
\* preferences with its AUTOINCREMENT counter seq, lists, list_items, orders,
\* order_items and price_history. ret is None when ValueError leaves the
\* call.
mark_purchased(tables, list_id, total_paid, notes) ==
    LET lst == get_list(tables.lists, list_id)
        items == get_list_items(tables.list_items, list_id)
        total_estimate == TotalEstimate(items)
        order == create_order(tables.orders, list_id,
                    IF total_estimate > 0 THEN Some(total_estimate) ELSE None,
                    total_paid, Len(items), notes)
        done == mark_purchased_from(tables.preferences, tables.seq,
                    tables.order_items, tables.price_history, order.ret,
                    items, 1, 0)
    IN  IF lst = None
        THEN [ret |-> None, tables |-> tables]
        ELSE [ret |-> Some([order_id |-> order.ret,
                            items_logged |-> done.items_logged]),
              tables |-> [preferences |-> done.prefs, seq |-> done.seq,
                          lists |-> update_list_status(tables.lists, list_id,
                                        "purchased", Some(total_estimate)),
                          list_items |-> tables.list_items,
                          orders |-> order.orders,
                          order_items |-> done.order_items,
                          price_history |-> done.price_history]]

(***************************************************************************)
(* common/cache.py: FileCache, by its contract                             *)
(***************************************************************************)
STALE_CACHE_MAX_AGE == 86400

\* get(key, ttl): the stored value if it was written at most ttl seconds
\* ago, else absent
cache_get(entries, clock, key, ttl) ==
    IF entries[key] # None /\ clock - entries[key][1].written_at <= ttl
    THEN Some(entries[key][1].value) ELSE None

\* get(key): the stale read, bounded by the maximum staleness
cache_get_stale(entries, clock, key) ==
    cache_get(entries, clock, key, STALE_CACHE_MAX_AGE)

\* set(key, value): the entry is replaced and stamped with the clock
cache_set(entries, clock, key, value) ==
    [entries EXCEPT ![key] = Some([value |-> value, written_at |-> clock])]

(***************************************************************************)
(* woolworths.py: the provider client                                      *)
(***************************************************************************)
CACHE_TTL_search == 3600

CACHE_TTL_product == 86400

CACHE_TTL_specials == 14400

DEFAULT_PAGE_SIZE == 10

DEFAULT_SORT == "TraderRelevance"

\* f"search_{query}_{page}_{page_size}_{sort_by}", as the tuple of its parts
SearchKey(query, page, page_size, sort_by) ==
    <<"search", query, page, page_size, sort_by>>

\* f"product_{stockcode}"
ProductKey(stockcode) == <<"product", stockcode>>

\* f"specials_{page}_{page_size}"
SpecialsKey(page, page_size) == <<"specials", page, page_size>>

\* bool(x) of what a cache read returns: None is false, so is an empty list;
\* a product dict is never empty
IsTrue(kind, read) ==
    read # None /\ (kind = "product" \/ read[1] # <<>>)

\* _get_session(): the session, and the request a new session starts with
_get_session(has_session) ==
    [session |-> TRUE,
     requests |-> IF has_session THEN <<>> ELSE <<"GET /">>]

\* the body of the fetching functions, had the failure path written the
\* stale value back with _cache.set
fetch_restamping_stale(kind, entries, clock, has_session, request, cache_key, ttl, response, value) ==
    LET cached == cache_get(entries, clock, cache_key, ttl)
        opened == _get_session(has_session)
        sent == <<"acquire">> \o opened.requests \o <<request>>
        stale == cache_get_stale(entries, clock, cache_key)
    IN  IF IsTrue(kind, cached)
        THEN [ret |-> cached, cache |-> entries, session |-> has_session,
              net |-> <<>>]
        ELSE IF ~response.ok
        THEN [ret |-> IF IsTrue(kind, stale) THEN stale ELSE None,
              cache |-> IF IsTrue(kind, stale)
                        THEN cache_set(entries, clock, cache_key, stale[1])
                        ELSE entries,
              session |-> FALSE, net |-> sent]
        ELSE [ret |-> Some(value),
              cache |-> cache_set(entries, clock, cache_key, value),
              session |-> opened.session, net |-> sent]

\* the body the three fetching functions share. response is the outcome of
\* the request: ok = FALSE when requests.RequestException is raised, else
\* value is what the response parses to. ret is None when RuntimeError
\* leaves the call.
fetch(kind, entries, clock, has_session, request, cache_key, ttl, response, value) ==
    LET cached == cache_get(entries, clock, cache_key, ttl)
        opened == _get_session(has_session)
        sent == <<"acquire">> \o opened.requests \o <<request>>
        stale == cache_get_stale(entries, clock, cache_key)
    IN  IF IsTrue(kind, cached)
        THEN [ret |-> cached, cache |-> entries, session |-> has_session,
              net |-> <<>>]
        ELSE IF ~response.ok
        THEN [ret |-> IF IsTrue(kind, stale) THEN stale ELSE None,
              cache |-> entries, session |-> FALSE, net |-> sent]
        ELSE [ret |-> Some(value),
              cache |-> cache_set(entries, clock, cache_key, value),
              session |-> opened.session, net |-> sent]

\* search_products, had it read the cache with the TTL of product details
search_products_with_product_ttl(entries, clock, has_session, query, page, page_size, sort_by, response) ==
    LET size == IF page_size = 0 THEN DEFAULT_PAGE_SIZE ELSE page_size
        sort == IF sort_by = "" THEN DEFAULT_SORT ELSE sort_by
    IN  fetch("search", entries, clock, has_session, "POST search",
              SearchKey(query, page, size, sort), CACHE_TTL_product, response,
              response.products)

search_products(entries, clock, has_session, query, page, page_size, sort_by, response) ==
    LET size == IF page_size = 0 THEN DEFAULT_PAGE_SIZE ELSE page_size
        sort == IF sort_by = "" THEN DEFAULT_SORT ELSE sort_by
    IN  fetch("search", entries, clock, has_session, "POST search",
              SearchKey(query, page, size, sort), CACHE_TTL_search, response,
              response.products)

get_product_details(entries, clock, has_session, stockcode, response) ==
    fetch("product", entries, clock, has_session, "GET product",
          ProductKey(stockcode), CACHE_TTL_product, response,
          IF response.ok THEN response.products[1] ELSE None)

\* the products of the response that are on special
RECURSIVE OnSpecial(_)
OnSpecial(products) ==
    IF products = <<>> THEN <<>>
    ELSE (IF products[1].on_special THEN <<products[1]>> ELSE <<>>)
         \o OnSpecial(Tail(products))

get_specials(entries, clock, has_session, page, page_size, response) ==
    fetch("specials", entries, clock, has_session, "POST search",
          SpecialsKey(page, page_size), CACHE_TTL_specials, response,
          OnSpecial(response.products))

(***************************************************************************)
(* woolworths.py: the trolley; cart.py: build_cart                         *)
(***************************************************************************)
CACHE_TTL_trolley == 300

\* the cache key "trolley_current"
TrolleyKey == <<"trolley", "current">>

\* get_trolley(). cookies tells whether auth.get_woolworths_cookies() returns
\* any; response is the outcome of requests.get, its data the keys of the
\* JSON object of the body. ret is None when RuntimeError leaves the call.
get_trolley(entries, clock, cookies, response) ==
    LET cached == cache_get(entries, clock, TrolleyKey, CACHE_TTL_trolley)
        stale == cache_get_stale(entries, clock, TrolleyKey)
    IN  IF IsTrue("trolley", cached)
        THEN [ret |-> cached, cache |-> entries, net |-> <<>>]
        ELSE IF ~cookies
        THEN [ret |-> None, cache |-> entries, net |-> <<"acquire">>]
        ELSE IF ~response.ok
        THEN [ret |-> IF IsTrue("trolley", stale) THEN stale ELSE None,
              cache |-> entries, net |-> <<"acquire", "GET trolley">>]
        ELSE [ret |-> Some(response.data),
              cache |-> cache_set(entries, clock, TrolleyKey, response.data),
              net |-> <<"acquire", "GET trolley">>]

\* validate_session(): valid unless get_trolley raises RuntimeError
validate_session(entries, clock, cookies, response) ==
    LET got == get_trolley(entries, clock, cookies, response)
    IN  [valid |-> got.ret # None, cache |-> got.cache, net |-> got.net]

\* add_to_trolley(stockcode, quantity). posted tells whether requests.post
\* succeeds; ok is FALSE when RuntimeError leaves the call.
add_to_trolley(cookies, stockcode, quantity, posted) ==
    IF ~cookies THEN [ok |-> FALSE, net |-> <<"acquire">>]
    ELSE [ok |-> posted, net |-> <<"acquire", "POST trolley">>]

\* the rows of a list that go to the cart, and those that do not
IsResolved(item) == item.resolved # 0 /\ HasStockcode(item)

\* the loop over cart_items, had it stopped at the first add that fails
RECURSIVE build_cart_until_failure(_, _, _, _, _, _, _, _)
build_cart_until_failure(cart_items, cookies, failing, i, added_count, failed, calls, sent) ==
    IF i > Len(cart_items)
    THEN [added |-> added_count, failed |-> failed, calls |-> calls,
          net |-> sent]
    ELSE LET item == cart_items[i]
             add == add_to_trolley(cookies, item.stockcode[1], item.quantity,
                                   i \notin failing)
             called == Append(calls, <<"add_to_trolley", item.stockcode[1],
                                       item.quantity>>)
         IN  IF add.ok
             THEN build_cart_until_failure(cart_items, cookies, failing,
                        i + 1, added_count + 1, failed, called,
                        sent \o add.net)
             ELSE [added |-> added_count,
                   failed |-> Append(failed,
                        [generic_name |-> item.generic_name,
                         stockcode |-> item.stockcode]),
                   calls |-> called, net |-> sent \o add.net]

\* the loop over cart_items: every item is added to the trolley, and one
\* whose add raises RuntimeError goes to failed. failing is the set of the
\* positions at which requests.post fails.
RECURSIVE build_cart_adding(_, _, _, _, _, _, _, _)
build_cart_adding(cart_items, cookies, failing, i, added_count, failed, calls, sent) ==
    IF i > Len(cart_items)
    THEN [added |-> added_count, failed |-> failed, calls |-> calls,
          net |-> sent]
    ELSE LET item == cart_items[i]
             add == add_to_trolley(cookies, item.stockcode[1], item.quantity,
                                   i \notin failing)
             called == Append(calls, <<"add_to_trolley", item.stockcode[1],
                                       item.quantity>>)
         IN  IF add.ok
             THEN build_cart_adding(cart_items, cookies, failing, i + 1,
                        added_count + 1, failed, called, sent \o add.net)
             ELSE build_cart_adding(cart_items, cookies, failing, i + 1,
                        added_count,
                        Append(failed, [generic_name |-> item.generic_name,
                                        stockcode |-> item.stockcode]),
                        called, sent \o add.net)

\* {"generic_name", "stockcode", "product_name", "quantity", "price"} of a row
CartItem(item) ==
    [generic_name |-> item.generic_name, stockcode |-> item.stockcode,
     product_name |-> item.product_name, quantity |-> item.quantity,
     price |-> item.price]

RECURSIVE GenericNames(_)
GenericNames(items) ==
    IF items = <<>> THEN <<>>
    ELSE <<items[1].generic_name>> \o GenericNames(Tail(items))

\* build_cart(list_id, confirm), with what it leaves in the cache and what
\* it called and sent
build_cart(lsts, items, entries, clock, list_id, confirm, cookies, response, failing) ==
    LET lst == get_list(lsts, list_id)
        rows == get_list_items(items, list_id)
        Unresolved(r) == ~IsResolved(r)
        resolved == SelectSeq(rows, IsResolved)
        unresolved == SelectSeq(rows, Unresolved)
        total == TotalEstimate(resolved)
        cart_items == [i \in 1..Len(resolved) |-> CartItem(resolved[i])]
        valid == validate_session(entries, clock, cookies, response)
        loop == build_cart_adding(cart_items, cookies, failing, 1, 0, <<>>,
                                  <<<<"validate_session">>>>, valid.net)
        Refused(message) ==
            [ret |-> [success |-> FALSE, message |-> message],
             cache |-> entries, calls |-> <<>>, net |-> <<>>]
    IN  IF lst = None THEN Refused("not found")
        ELSE IF lst[1].status # "active" THEN Refused("not active")
        ELSE IF rows = <<>> THEN Refused("empty")
        ELSE IF resolved = <<>> THEN Refused("no resolved items")
        ELSE IF ~confirm
        THEN [ret |-> [success |-> TRUE, preview |-> TRUE,
                       items |-> cart_items,
                       unresolved |-> GenericNames(unresolved),
                       total_estimate |-> total, added |-> 0,
                       failed |-> <<>>],
              cache |-> entries, calls |-> <<>>, net |-> <<>>]
        ELSE IF ~valid.valid
        THEN [ret |-> [success |-> FALSE, message |-> "session invalid"],
              cache |-> valid.cache, calls |-> <<<<"validate_session">>>>,
              net |-> valid.net]
        ELSE [ret |-> [success |-> TRUE, preview |-> FALSE,
                       items |-> cart_items,
                       unresolved |-> GenericNames(unresolved),
                       total_estimate |-> total, added |-> loop.added,
                       failed |-> loop.failed],
              cache |-> valid.cache, calls |-> loop.calls, net |-> loop.net]

(***************************************************************************)
(* common/rate_limiter.py: RateLimiter, by its contract                    *)
(***************************************************************************)
WOOLWORTHS_RATE_LIMIT_CALLS == 5

WOOLWORTHS_RATE_LIMIT_PERIOD == 1

\* the limiter, had it been constructed with one call more
_limiter_with_one_call_more ==
    [max_calls |-> WOOLWORTHS_RATE_LIMIT_CALLS + 1,
     period |-> WOOLWORTHS_RATE_LIMIT_PERIOD]

\* the one instance all callers share
_limiter ==
    [max_calls |-> WOOLWORTHS_RATE_LIMIT_CALLS,
     period |-> WOOLWORTHS_RATE_LIMIT_PERIOD]

\* the ages after one tick of the clock, without those of age span and more
RECURSIVE Aged(_, _)
Aged(ages, span) ==
    IF ages = <<>> THEN <<>>
    ELSE (IF ages[1] + 1 < span THEN <<ages[1] + 1>> ELSE <<>>)
         \o Aged(Tail(ages), span)

\* the ticks of the period of a limiter
PeriodTicks(limiter) == limiter.period * TicksPerPeriod

\* acquire() may return: fewer than max_calls permits were given within
\* the last period
limiter_has_room(limiter, ages) == Len(ages) < limiter.max_calls

(***************************************************************************)
(* Inputs                                                                  *)
(***************************************************************************)
Words == <<"a", "b", "c">>

\* str.upper() on one character, to build inputs
UpperChar(c) ==
    CASE c = "a" -> "A" [] c = "b" -> "B" [] c = "c" -> "C" [] OTHER -> c

Upper(s) == [i \in 1..Len(s) |-> UpperChar(s[i])]

Padded(s) == <<" ">> \o s \o <<" ">>

\* the words numbered by order, separated by one blank
RECURSIVE Phrase(_)
Phrase(order) ==
    IF Len(order) = 1 THEN <<Words[order[1]]>>
    ELSE Join(<<Words[order[1]]>>, Phrase(Tail(order)))

\* generic names as stored: lower case, no padding
Names ==
    {Phrase(o) : o \in {<<1>>, <<2>>, <<3>>, <<1, 2>>, <<1, 3>>, <<2, 3>>,
                        <<1, 2, 3>>, <<2, 1>>}}

\* names under which preferences are learned
LearnNames ==
    {Upper(Phrase(<<1, 2, 3>>)), Padded(Phrase(<<1, 2, 3>>)),
     Phrase(<<2, 1>>), Padded(Phrase(<<3>>))}

\* generic names as typed: every stored form, and the learned names also in
\* upper case and padded with blanks
RawNames ==
    Names \cup {Upper(Lower(Strip(g))) : g \in LearnNames}
          \cup {Padded(Lower(Strip(g))) : g \in LearnNames}

Catalogue ==
    <<[stockcode |-> 100, name |-> <<"A">>, brand |-> Some(<<"P">>),
       package_size |-> Some(<<"T">>), price |-> Some(450),
       on_special |-> TRUE, available |-> TRUE],
      [stockcode |-> 101, name |-> <<"a", " ", "b">>, brand |-> Some(<<"q">>),
       package_size |-> Some(<<"S">>), price |-> None,
       on_special |-> FALSE, available |-> TRUE],
      [stockcode |-> 102, name |-> <<"a">>, brand |-> None,
       package_size |-> Some(<<>>), price |-> Some(300),
       on_special |-> FALSE, available |-> FALSE]>>

Products == {Catalogue[i] : i \in 1..Len(Catalogue)}

\* provider responses of at most n products
Responses(n) == UNION {[1..k -> Products] : k \in 0..n}

Failed == [ok |-> FALSE, products |-> <<>>]

Returned(products) == [ok |-> TRUE, products |-> products]

Outcomes(n) == {Failed} \cup {Returned(r) : r \in Responses(n)}

BrandHints == {None, Some(<<"p">>)}

SizeHints == {None, Some(<<"s">>)}

\* spellings under which preferences are saved, each with the catalogue
\* products saved under it
SaveChoices ==
    {<<Upper(Phrase(<<1, 2>>)), 1>>, <<Upper(Phrase(<<1, 2>>)), 3>>,
     <<Padded(Phrase(<<1, 2>>)), 2>>, <<Padded(Phrase(<<3>>)), 2>>}

SaveNames == {c[1] : c \in SaveChoices}

\* every spelling of the saved names
StoreLookups ==
    UNION {{n, Upper(n), Padded(n)} : n \in {Phrase(<<1, 2>>), Phrase(<<3>>)}}

\* the name of a shopping list
ListName == <<"w">>

\* the items put on the list whose purchase reaches the preference store:
\* the number of rows the list has before the add, and the name as typed
StoreListAdds == {<<0, Upper(Phrase(<<1, 2>>))>>, <<1, Padded(Phrase(<<3>>))>>}

\* how its items are resolved: the item id and the place in the catalogue of
\* the product it is resolved to
StoreListUpdates == {<<1, 3>>, <<2, 2>>}

\* queries sent to the provider
Queries == {Phrase(<<1>>), Phrase(<<2>>)}

\* the cache keys of the requests that are made
CacheKeys ==
    {SearchKey(q, 1, DEFAULT_PAGE_SIZE, DEFAULT_SORT) : q \in Queries}
        \cup {ProductKey(100), SpecialsKey(1, 20), TrolleyKey}

\* instants of the clock: around the search TTL and the maximum staleness
Times == {0, 3600, 3601, 86400, 86401}

\* outcomes of the request get_trolley sends
TrolleyFailed == [ok |-> FALSE, data |-> <<>>]

TrolleyReturned == [ok |-> TRUE, data |-> <<"TrolleyItems">>]

\* the positions of the cart at which requests.post may fail
AddFailures == SUBSET {1, 2}

\* the threads that call acquire() of the one limiter
Threads == 1..MaxThreads

\* the two processes, each with its own connection to the database
Processes == {1, 2}

\* the names the processes save under
WriterNames == {Phrase(<<1>>), Upper(Phrase(<<1>>)), Padded(Phrase(<<2, 1>>))}

\* a process outside save_preference
Closed == [pc |-> "idle"]

(***************************************************************************)
(* State machine                                                           *)
(***************************************************************************)
NoCall == [op |-> "none"]

\* the stored form of a typed name: the name it was built from
NameOf(raw) == CHOOSE n \in Names : raw \in {n, Upper(n), Padded(n)}

Init ==
    /\ preferences = <<>>
    /\ pref_seq = 0
    /\ pc = "idle"
    /\ call = NoCall
    /\ ret = <<>>
    /\ searches = <<>>
    /\ learned = [n \in Names |-> None]
    /\ cache = [k \in CacheKeys |-> None]
    /\ now = 0
    /\ session = FALSE
    /\ net = <<>>
    /\ lists = <<>>
    /\ list_items = <<>>
    /\ item_seq = 0
    /\ added = [k \in (1..(MaxLists + 1)) \X Names |-> 0]
    /\ orders = <<>>
    /\ order_items = <<>>
    /\ price_history = <<>>
    /\ trolley_calls = <<>>
    /\ window = <<>>
    /\ granted = <<>>
    /\ queue = <<>>
    /\ thread = [t \in Threads |-> "idle"]
    /\ conn = [p \in Processes |-> Closed]
    /\ db_writer = 0
    /\ started = [n \in Names |-> 0]

\* cli resolve --learn: resolver.learn_preference with a chosen product
LearnPreference(generic_name, product) ==
    LET saved == learn_preference(preferences, pref_seq, generic_name,
                    product.stockcode, product.name, product.brand,
                    product.package_size, product.price)
        existing == get_preference(preferences, generic_name)
    IN  /\ pc = "idle"
        /\ IF existing # None
           THEN existing[1].purchase_count < MaxCount
           ELSE Len(preferences) < MaxPrefs /\ pref_seq < MaxIds
        /\ preferences' = saved.prefs
        /\ pref_seq' = saved.seq
        /\ pc' = "learn_preference"
        /\ call' = [op |-> "learn_preference", generic_name |-> generic_name,
                    stockcode |-> product.stockcode]
        /\ ret' = <<saved.id>>
        /\ searches' = <<>>
        /\ learned' = [n \in Names |->
                        IF n = NameOf(generic_name)
                        THEN Some(product.stockcode) ELSE learned[n]]
        /\ UNCHANGED beyond_store

DeletePreference(generic_name) ==
    LET gone == delete_preference(preferences, generic_name)
    IN  /\ pc = "idle"
        /\ preferences' = gone.prefs
        /\ pc' = "delete_preference"
        /\ call' = [op |-> "delete_preference", generic_name |-> generic_name]
        /\ ret' = <<gone.deleted>>
        /\ searches' = <<>>
        /\ learned' = [n \in Names |->
                        IF n = NameOf(generic_name) THEN None
                        ELSE learned[n]]
        /\ UNCHANGED pref_seq
        /\ UNCHANGED beyond_store

ResolveItem(generic_name, quantity, prefer_brand, prefer_size, provider) ==
    LET done == resolve_item(preferences, generic_name, quantity,
                             prefer_brand, prefer_size, provider)
    IN  /\ pc = "idle"
        /\ pc' = "resolve_item"
        /\ call' = [op |-> "resolve_item", generic_name |-> generic_name,
                    quantity |-> quantity, prefer_brand |-> prefer_brand,
                    prefer_size |-> prefer_size, provider |-> provider]
        /\ ret' = done.ret
        /\ searches' = done.searches
        /\ preferences' = resolver_store_after(preferences, pref_seq, ret').prefs
        /\ pref_seq' = resolver_store_after(preferences, pref_seq, ret').seq
        /\ UNCHANGED learned
        /\ UNCHANGED beyond_store

ResolveList(items, providers) ==
    LET done == resolve_list(preferences, items, providers)
    IN  /\ pc = "idle"
        /\ pc' = "resolve_list"
        /\ call' = [op |-> "resolve_list", items |-> items,
                    providers |-> providers]
        /\ ret' = done.ret
        /\ searches' = done.searches
        /\ preferences' = resolver_store_after(preferences, pref_seq,
                            IF ret' = None THEN <<>> ELSE ret'[1]).prefs
        /\ pref_seq' = resolver_store_after(preferences, pref_seq,
                            IF ret' = None THEN <<>> ELSE ret'[1]).seq
        /\ UNCHANGED learned
        /\ UNCHANGED beyond_store

\* the save keeps the store within the bounds: purchase counts up to limit
SaveAllowed(generic_name, limit) ==
    LET existing == get_preference(preferences, generic_name)
    IN  IF existing # None THEN existing[1].purchase_count < limit
        ELSE Len(preferences) < MaxPrefs /\ pref_seq < MaxIds

\* db.save_preference called with the fields of a product
SavePreference(generic_name, product) ==
    LET saved == save_preference(preferences, pref_seq, generic_name,
                    product.stockcode, product.name, product.brand,
                    product.package_size, product.price)
    IN  /\ pc = "idle"
        /\ preferences' = saved.prefs
        /\ pref_seq' = saved.seq
        /\ pc' = "save_preference"
        /\ call' = [op |-> "save_preference", generic_name |-> generic_name,
                    stockcode |-> product.stockcode,
                    product_name |-> product.name, brand |-> product.brand,
                    package_size |-> product.package_size,
                    price |-> product.price]
        /\ ret' = <<saved.id>>
        /\ searches' = <<>>
        /\ learned' = [n \in Names |->
                        IF n = NameOf(generic_name) THEN None ELSE learned[n]]
        /\ UNCHANGED beyond_store

\* db.get_preference
GetPreference(generic_name) ==
    /\ pc = "idle"
    /\ pc' = "get_preference"
    /\ call' = [op |-> "get_preference", generic_name |-> generic_name]
    /\ ret' = get_preference(preferences, generic_name)
    /\ searches' = <<>>
    /\ UNCHANGED <<preferences, pref_seq, learned>>
    /\ UNCHANGED beyond_store

\* the tables mark_purchased works on
Tables ==
    [preferences |-> preferences, seq |-> pref_seq, lists |-> lists,
     list_items |-> list_items, orders |-> orders,
     order_items |-> order_items, price_history |-> price_history]

\* cli list-purchased: lists.mark_purchased
MarkPurchased(list_id) ==
    LET done == mark_purchased(Tables, list_id, None, None)
        after == done.tables
        saved == {r.generic_name : r \in
                    {list_items[k] : k \in
                        {i \in 1..Len(list_items) :
                            /\ list_items[i].list_id = list_id
                            /\ HasStockcode(list_items[i])}}}
    IN  /\ pc = "idle"
        /\ Len(after.preferences) <= MaxPrefs
        /\ after.seq <= MaxIds
        /\ \A i \in 1..Len(after.preferences) :
              after.preferences[i].purchase_count <= MaxCount
        /\ Len(after.orders) <= MaxOrders
        /\ preferences' = after.preferences
        /\ pref_seq' = after.seq
        /\ lists' = after.lists
        /\ list_items' = after.list_items
        /\ orders' = after.orders
        /\ order_items' = after.order_items
        /\ price_history' = after.price_history
        /\ pc' = "mark_purchased"
        /\ call' = [op |-> "mark_purchased", list_id |-> list_id]
        /\ ret' = done.ret
        /\ searches' = <<>>
        /\ learned' = [n \in Names |->
                        IF ret' # None /\ n \in saved THEN None
                        ELSE learned[n]]
        /\ UNCHANGED <<item_seq, added>>
        /\ UNCHANGED <<provider_vars, other_vars>>

\* db.create_list
CreateList(name) ==
    LET done == create_list(lists, name)
    IN  /\ pc = "idle"
        /\ Len(lists) < MaxLists
        /\ lists' = done.lists
        /\ pc' = "create_list"
        /\ call' = [op |-> "create_list", name |-> name]
        /\ ret' = Some(done.ret)
        /\ searches' = <<>>
        /\ UNCHANGED <<preferences, pref_seq, learned, list_items, item_seq,
                       added>>
        /\ UNCHANGED <<provider_vars, order_vars, other_vars>>

\* db.add_list_item without a unit
AddListItem(list_id, generic_name, quantity) ==
    LET done == add_list_item(lists, list_items, item_seq, list_id,
                              generic_name, quantity, None)
        key == NameOf(generic_name)
    IN  /\ pc = "idle"
        /\ done.seq <= MaxItemIds
        /\ \A i \in 1..Len(done.items) : done.items[i].quantity <= MaxListQty
        /\ list_items' = done.items
        /\ item_seq' = done.seq
        /\ pc' = "add_list_item"
        /\ call' = [op |-> "add_list_item", list_id |-> list_id,
                    generic_name |-> generic_name, quantity |-> quantity]
        /\ ret' = done.ret
        /\ searches' = <<>>
        /\ added' = IF ret' = None THEN added
                    ELSE [added EXCEPT ![<<list_id, key>>] = @ + quantity]
        /\ UNCHANGED <<preferences, pref_seq, learned, lists>>
        /\ UNCHANGED <<provider_vars, order_vars, other_vars>>

\* db.remove_list_item
RemoveListItem(list_id, generic_name) ==
    LET done == remove_list_item(list_items, list_id, generic_name)
    IN  /\ pc = "idle"
        /\ list_items' = done.items
        /\ pc' = "remove_list_item"
        /\ call' = [op |-> "remove_list_item", list_id |-> list_id,
                    generic_name |-> generic_name]
        /\ ret' = Some(done.ret)
        /\ searches' = <<>>
        /\ added' = [added EXCEPT ![<<list_id, NameOf(generic_name)>>] = 0]
        /\ UNCHANGED <<preferences, pref_seq, learned, lists, item_seq>>
        /\ UNCHANGED <<provider_vars, order_vars, other_vars>>

\* db.update_list_item as _resolve_list_items calls it for a resolved item
UpdateListItem(item_id, product) ==
    LET done == update_list_item(list_items, item_id,
                    Some(product.stockcode), Some(product.name),
                    product.price)
    IN  /\ pc = "idle"
        /\ list_items' = done.items
        /\ pc' = "update_list_item"
        /\ call' = [op |-> "update_list_item", item_id |-> item_id,
                    product |-> product]
        /\ ret' = Some(done.ret)
        /\ searches' = <<>>
        /\ UNCHANGED <<preferences, pref_seq, learned, lists, item_seq, added>>
        /\ UNCHANGED <<provider_vars, order_vars, other_vars>>

\* cli cart-build: cart.build_cart
BuildCart(list_id, confirm, cookies, response, failing) ==
    LET done == build_cart(lists, list_items, cache, now, list_id, confirm,
                           cookies, response, failing)
    IN  /\ pc = "idle"
        /\ pc' = "build_cart"
        /\ call' = [op |-> "build_cart", list_id |-> list_id,
                    confirm |-> confirm, cookies |-> cookies,
                    response |-> response, failing |-> failing]
        /\ ret' = Some(done.ret)
        /\ cache' = done.cache
        /\ net' = done.net
        /\ trolley_calls' = done.calls
        /\ searches' = <<>>
        /\ UNCHANGED <<preferences, pref_seq, learned, now, session>>
        /\ UNCHANGED <<list_vars, order_vars, limiter_vars, conn_vars>>

\* a thread calls _limiter.acquire() and blocks
Acquire(t) ==
    /\ thread[t] = "idle"
    /\ thread' = [thread EXCEPT ![t] = "waiting"]
    /\ queue' = Append(queue, t)
    /\ UNCHANGED <<window, granted>>
    /\ UNCHANGED <<preferences, pref_seq, pc, call, ret, searches, learned>>
    /\ UNCHANGED <<provider_vars, list_vars, order_vars, cart_vars, conn_vars>>

\* acquire() returns to the thread that has waited longest
Grant ==
    /\ queue # <<>>
    /\ limiter_has_room(_limiter, window)
    /\ thread' = [thread EXCEPT ![Head(queue)] = "acquired"]
    /\ queue' = Tail(queue)
    /\ window' = Append(window, 0)
    /\ granted' = Append(granted, 0)
    /\ UNCHANGED <<preferences, pref_seq, pc, call, ret, searches, learned>>
    /\ UNCHANGED <<provider_vars, list_vars, order_vars, cart_vars, conn_vars>>

\* the thread has made its request and may call acquire() again
Release(t) ==
    /\ thread[t] = "acquired"
    /\ thread' = [thread EXCEPT ![t] = "idle"]
    /\ UNCHANGED <<window, granted, queue>>
    /\ UNCHANGED <<preferences, pref_seq, pc, call, ret, searches, learned>>
    /\ UNCHANGED <<provider_vars, list_vars, order_vars, cart_vars, conn_vars>>

\* the clock of the limiter advances by one tick
LimiterTick ==
    /\ window' = Aged(window, PeriodTicks(_limiter))
    /\ granted' = Aged(granted, 2 * PeriodTicks(_limiter))
    /\ UNCHANGED <<queue, thread>>
    /\ UNCHANGED <<preferences, pref_seq, pc, call, ret, searches, learned>>
    /\ UNCHANGED <<provider_vars, list_vars, order_vars, cart_vars, conn_vars>>

\* save_preference in a process of its own, statement by statement. The
\* SELECT of get_preference runs outside a transaction.
SaveSelect(p, generic_name) ==
    LET generic == Normalize(generic_name)
    IN  /\ conn[p].pc = "idle"
        /\ started[generic] < MaxCount
        /\ conn' = [conn EXCEPT ![p] =
                        [pc |-> "selected", generic |-> generic,
                         existing |-> get_preference(preferences, generic)]]
        /\ started' = [started EXCEPT ![generic] = @ + 1]
        /\ UNCHANGED <<preferences, pref_seq, db_writer>>
        /\ UNCHANGED <<pc, call, ret, searches, learned>>
        /\ UNCHANGED <<provider_vars, list_vars, order_vars, cart_vars,
                       limiter_vars>>

\* conn.execute of the UPDATE or the INSERT: sqlite3 begins a transaction,
\* which takes the write lock of the database once no other connection
\* holds it (within the timeout of 10 seconds), and the statement sees what
\* is committed by then. An IntegrityError ends the process, and with it
\* the transaction.
SaveExecute(p, product) ==
    LET c == conn[p]
        inserted == save_preference_insert(preferences, pref_seq, c.generic,
                        product.stockcode, product.name, product.brand,
                        product.package_size, product.price)
        updated == save_preference_update(preferences, c.generic,
                        product.stockcode, product.name, product.brand,
                        product.package_size, product.price)
    IN  /\ c.pc = "selected"
        /\ db_writer = 0
        /\ IF c.existing # None
           THEN /\ conn' = [conn EXCEPT ![p] =
                              [pc |-> "executed", id |-> c.existing[1].id,
                               pending |-> updated, seq |-> pref_seq]]
                /\ db_writer' = p
           ELSE IF inserted.ok
           THEN /\ conn' = [conn EXCEPT ![p] =
                              [pc |-> "executed", id |-> inserted.id,
                               pending |-> inserted.prefs,
                               seq |-> inserted.seq]]
                /\ db_writer' = p
           ELSE /\ conn' = [conn EXCEPT ![p] =
                              [pc |-> "raised", error |-> "IntegrityError"]]
                /\ db_writer' = 0
        /\ UNCHANGED <<preferences, pref_seq, started>>
        /\ UNCHANGED <<pc, call, ret, searches, learned>>
        /\ UNCHANGED <<provider_vars, list_vars, order_vars, cart_vars,
                       limiter_vars>>

\* conn.commit(), and the row id is returned
SaveCommit(p) ==
    /\ conn[p].pc = "executed"
    /\ preferences' = conn[p].pending
    /\ pref_seq' = conn[p].seq
    /\ db_writer' = 0
    /\ conn' = [conn EXCEPT ![p] = [pc |-> "returned", id |-> conn[p].id]]
    /\ UNCHANGED started
    /\ UNCHANGED <<pc, call, ret, searches, learned>>
    /\ UNCHANGED <<provider_vars, list_vars, order_vars, cart_vars,
                   limiter_vars>>

\* the process is done with the call
SaveLeave(p) ==
    /\ conn[p].pc \in {"returned", "raised"}
    /\ conn' = [conn EXCEPT ![p] = Closed]
    /\ UNCHANGED <<preferences, pref_seq, db_writer, started>>
    /\ UNCHANGED <<pc, call, ret, searches, learned>>
    /\ UNCHANGED <<provider_vars, list_vars, order_vars, cart_vars,
                   limiter_vars>>

\* resolver._calculate_relevance against the store as it is
CalculateRelevance(product, generic_name, prefer_brand, prefer_size) ==
    /\ pc = "idle"
    /\ pc' = "_calculate_relevance"
    /\ call' = [op |-> "_calculate_relevance", product |-> product,
                generic_name |-> generic_name, prefer_brand |-> prefer_brand,
                prefer_size |-> prefer_size]
    /\ ret' = <<_calculate_relevance(product, generic_name, prefer_brand,
                                     prefer_size, preferences)>>
    /\ searches' = <<>>
    /\ UNCHANGED <<preferences, pref_seq, learned>>
    /\ UNCHANGED beyond_store

\* resolver._jaccard
Jaccard(a, b) ==
    /\ pc = "idle"
    /\ pc' = "_jaccard"
    /\ call' = [op |-> "_jaccard", a |-> a, b |-> b]
    /\ ret' = <<_jaccard(a, b)>>
    /\ searches' = <<>>
    /\ UNCHANGED <<preferences, pref_seq, learned>>
    /\ UNCHANGED beyond_store

\* woolworths.search_products with the default page size and sort order
SearchProducts(query, response) ==
    LET done == search_products(cache, now, session, query, 1, 0, "", response)
    IN  /\ pc = "idle"
        /\ pc' = "search_products"
        /\ call' = [op |-> "search_products", query |-> query,
                    cache_key |-> SearchKey(query, 1, DEFAULT_PAGE_SIZE,
                                            DEFAULT_SORT),
                    response |-> response]
        /\ ret' = done.ret
        /\ cache' = done.cache
        /\ session' = done.session
        /\ net' = done.net
        /\ searches' = <<>>
        /\ UNCHANGED <<preferences, pref_seq, learned, now>>
        /\ UNCHANGED beyond_provider

\* woolworths.get_product_details
GetProductDetails(stockcode, response) ==
    LET done == get_product_details(cache, now, session, stockcode, response)
    IN  /\ pc = "idle"
        /\ pc' = "get_product_details"
        /\ call' = [op |-> "get_product_details", stockcode |-> stockcode,
                    cache_key |-> ProductKey(stockcode),
                    response |-> response]
        /\ ret' = done.ret
        /\ cache' = done.cache
        /\ session' = done.session
        /\ net' = done.net
        /\ searches' = <<>>
        /\ UNCHANGED <<preferences, pref_seq, learned, now>>
        /\ UNCHANGED beyond_provider

\* woolworths.get_specials with its default page and page size
GetSpecials(response) ==
    LET done == get_specials(cache, now, session, 1, 20, response)
    IN  /\ pc = "idle"
        /\ pc' = "get_specials"
        /\ call' = [op |-> "get_specials", cache_key |-> SpecialsKey(1, 20),
                    response |-> response]
        /\ ret' = done.ret
        /\ cache' = done.cache
        /\ session' = done.session
        /\ net' = done.net
        /\ searches' = <<>>
        /\ UNCHANGED <<preferences, pref_seq, learned, now>>
        /\ UNCHANGED beyond_provider

\* time passes between two calls
Tick(t) ==
    /\ pc = "idle"
    /\ t > now
    /\ now' = t
    /\ UNCHANGED <<preferences, pref_seq, pc, call, ret, searches, learned,
                   cache, session, net>>
    /\ UNCHANGED beyond_provider

\* the call returns to its caller
Exit ==
    /\ pc # "idle"
    /\ pc' = "idle"
    /\ call' = NoCall
    /\ ret' = <<>>
    /\ searches' = <<>>
    /\ net' = <<>>
    /\ UNCHANGED <<preferences, pref_seq, learned, cache, now, session>>
    /\ trolley_calls' = <<>>
    /\ UNCHANGED <<list_vars, order_vars, limiter_vars, conn_vars>>

\* Preferences and single resolutions against short provider responses
Next ==
    \/ \E g \in LearnNames :
          LearnPreference(g, Catalogue[IF g[1] = " " THEN 2 ELSE 1])
    \/ \E g \in LearnNames : DeletePreference(g)
    \/ \E g \in RawNames, b \in BrandHints,
          o \in {Failed, Returned(<<>>), Returned(<<Catalogue[1]>>)} :
          ResolveItem(g, MaxQty, b, None, o)
    \/ Exit

Spec == Init /\ [][Next]_vars

\* Scoring, ranking and the auto-resolve gate against long provider responses
SearchNames ==
    {Phrase(<<1>>), Upper(Phrase(<<1, 2>>)), Padded(Phrase(<<1, 2, 3>>)),
     Phrase(<<3>>)}

NextSearch ==
    \/ LearnPreference(Padded(Phrase(<<3>>)), Catalogue[1])
    \/ \E g \in SearchNames, b \in BrandHints, z \in SizeHints,
          o \in Outcomes(2) :
          ResolveItem(g, MaxQty, b, z, o)
    \/ \E o \in Outcomes(MaxResults) :
          ResolveItem(Phrase(<<1>>), 1, None, None, o)
    \/ Exit

SpecSearch == Init /\ [][NextSearch]_vars

\* Batches of requests
BatchNames == {Phrase(<<1, 2, 3>>), Phrase(<<1>>), Padded(Phrase(<<1, 2>>))}

\* a brand hint goes with the one-word name and the default quantity
Requests ==
    {[generic_name |-> r[1], quantity |-> r[2], prefer_brand |-> r[3],
      prefer_size |-> None] :
        r \in {t \in BatchNames \X {None, Some(MaxQty + 1)} \X BrandHints :
                  t[3] = None \/ (Len(t[1]) = 1 /\ t[2] = None)}}

Batches(n) == UNION {[1..k -> Requests] : k \in 0..n}

NextBatch ==
    \/ \E i \in 1..2 : LearnPreference(Upper(Phrase(<<1, 2, 3>>)), Catalogue[i])
    \/ \E items \in Batches(MaxBatch) :
          \E providers \in [1..Len(items) ->
                              {Failed, Returned(<<Catalogue[1]>>)}] :
              ResolveList(items, providers)
    \/ Exit

SpecBatch == Init /\ [][NextBatch]_vars

\* The preference store under every operation that reaches it
StoreRequests ==
    {[generic_name |-> g, quantity |-> None, prefer_brand |-> None,
      prefer_size |-> None] : g \in {Phrase(<<1>>), Phrase(<<2, 1>>)}}

StoreOutcomes ==
    {Failed, Returned(<<Catalogue[1]>>), Returned(<<Catalogue[3]>>)}

\* batches of two requests, and the provider's answers to them
StoreBatches ==
    {<<r, q>> \in StoreRequests \X StoreRequests : r # q}

StoreAnswers ==
    {<<Returned(<<Catalogue[1]>>), Returned(<<Catalogue[3]>>)>>,
     <<Returned(<<Catalogue[3]>>), Returned(<<Catalogue[1]>>)>>,
     <<Failed, Returned(<<Catalogue[1]>>)>>}

NextStore ==
    \/ \E c \in SaveChoices :
          SaveAllowed(c[1], MaxCount) /\ SavePreference(c[1], Catalogue[c[2]])
    \/ LearnPreference(Padded(Phrase(<<3>>)), Catalogue[2])
    \/ lists = <<>> /\ CreateList(ListName)
    \/ \E c \in StoreListAdds :
          orders = <<>> /\ Len(list_items) = c[1] /\ AddListItem(1, c[2], 1)
    \/ \E c \in StoreListUpdates :
          /\ orders = <<>>
          /\ Len(list_items) = 2
          /\ list_items[c[1]].resolved = 0
          /\ UpdateListItem(c[1], Catalogue[c[2]])
    \/ orders = <<>> /\ MarkPurchased(1)
    \/ \E g \in SaveNames : DeletePreference(g)
    \/ \E g \in StoreLookups : GetPreference(g)
    \/ \E g \in StoreLookups : ResolveItem(g, 1, None, None, Failed)
    \/ \E g \in {Phrase(<<1>>), Phrase(<<2, 1>>)}, o \in StoreOutcomes :
          ResolveItem(g, 1, None, None, o)
    \/ \E items \in StoreBatches, providers \in StoreAnswers :
          ResolveList(items, providers)
    \/ Exit

SpecStore == Init /\ [][NextStore]_vars

\* The scorer and the token overlap on their own
ScoreProducts ==
    {[Catalogue[i] EXCEPT !.available = v] :
        i \in 1..Len(Catalogue), v \in BOOLEAN}

\* queries of the scorer: with one and two tokens, in upper case, without
\* tokens
ScoreNames ==
    {Phrase(<<1>>), Phrase(<<1, 2>>), Upper(Phrase(<<1>>)), <<>>, <<" ">>}

ScoreSizeHints == SizeHints \cup {Some(<<"t">>)}

TokenPool == {<<"a">>, <<"b">>, <<"c">>, <<"d">>}

NextScore ==
    \/ \E i \in 1..2 :
          /\ SaveAllowed(Phrase(<<1>>), MaxPurchases)
          /\ SavePreference(Phrase(<<1>>), Catalogue[i])
    \/ \E p \in ScoreProducts, g \in ScoreNames, b \in BrandHints,
          z \in ScoreSizeHints :
          CalculateRelevance(p, g, b, z)
    \/ \E a \in SUBSET TokenPool, b \in SUBSET TokenPool : Jaccard(a, b)
    \/ Exit

SpecScore == Init /\ [][NextScore]_vars

\* names of list items as typed
ItemNames == {Phrase(<<1>>), Upper(Phrase(<<1>>)), Padded(Phrase(<<3>>))}

\* the product an item of that name is resolved to: one with a price for
\* the first name, one without for the others
ItemProduct(generic_name) ==
    IF generic_name = Phrase(<<1>>) THEN Catalogue[3] ELSE Catalogue[2]

\* Shopping lists and their items, added under several spellings and
\* removed; list MaxLists + 1 does not exist.
NextLists ==
    \/ CreateList(ListName)
    \/ \E l \in 1..(MaxLists + 1), g \in ItemNames, q \in 1..2 :
          AddListItem(l, g, q)
    \/ \E l \in 1..MaxLists, g \in ItemNames : RemoveListItem(l, g)
    \/ Exit

SpecLists == Init /\ [][NextLists]_vars

\* One list, its items resolved while they are unresolved, as
\* _resolve_list_items does, and purchased; list 2 does not exist.
NextPurchase ==
    \/ lists = <<>> /\ CreateList(ListName)
    \/ LearnPreference(Phrase(<<1>>), Catalogue[1])
    \/ \E g \in {Phrase(<<1>>), Padded(Phrase(<<3>>))} : AddListItem(1, g, 1)
    \/ \E i \in 1..Len(list_items) :
          /\ list_items[i].resolved = 0
          /\ UpdateListItem(list_items[i].id,
                            ItemProduct(list_items[i].generic_name))
    \/ \E l \in {1, 2} : MarkPurchased(l)
    \/ Exit

SpecPurchase == Init /\ [][NextPurchase]_vars

\* One list of at most two items, resolved item by item, built into a cart
\* and purchased; list 2 does not exist.
NextCart ==
    \/ lists = <<>> /\ CreateList(ListName)
    \/ \E g \in {Phrase(<<1>>), Padded(Phrase(<<3>>))} :
          /\ \A i \in 1..Len(list_items) :
                list_items[i].generic_name # Strip(Lower(g))
          /\ AddListItem(1, g, 1)
    \/ \E i \in 1..Len(list_items) :
          /\ list_items[i].resolved = 0
          /\ UpdateListItem(list_items[i].id,
                            ItemProduct(list_items[i].generic_name))
    \/ orders = <<>> /\ MarkPurchased(1)
    \/ \E l \in {1, 2}, confirm \in BOOLEAN, cookies \in BOOLEAN,
          r \in {TrolleyFailed, TrolleyReturned}, failing \in AddFailures :
          BuildCart(l, confirm, cookies, r, failing)
    \/ \E t \in {CACHE_TTL_trolley, CACHE_TTL_trolley + 1} : Tick(t)
    \/ Exit

SpecCart == Init /\ [][NextCart]_vars

\* Threads that share the limiter. The clock goes on, and a thread blocked
\* in acquire() is scheduled again: the thread at the head of the queue
\* returns once the limiter has room.
NextLimiter ==
    \/ \E t \in Threads : Acquire(t)
    \/ Grant
    \/ \E t \in Threads : Release(t)
    \/ LimiterTick

SpecLimiter ==
    /\ Init
    /\ [][NextLimiter]_vars
    /\ WF_vars(LimiterTick)
    /\ WF_vars(Grant)

\* Two processes that save preferences, their statements interleaved
NextWriters ==
    \/ \E p \in Processes, g \in WriterNames : SaveSelect(p, g)
    \/ \E p \in Processes : SaveExecute(p, Catalogue[p])
    \/ \E p \in Processes : SaveCommit(p)
    \/ \E p \in Processes : SaveLeave(p)

SpecWriters == Init /\ [][NextWriters]_vars

\* The provider client with its cache, session and rate limiter
NextProvider ==
    \/ \E q \in Queries,
          r \in {Failed, Returned(<<>>), Returned(<<Catalogue[1]>>)} :
          SearchProducts(q, r)
    \/ \E r \in {Failed, Returned(<<Catalogue[1]>>)} :
          GetProductDetails(100, r)
    \/ \E r \in {Failed, Returned(<<Catalogue[2]>>),
                  Returned(<<Catalogue[2], Catalogue[1]>>)} :
          GetSpecials(r)
    \/ \E t \in Times : Tick(t)
    \/ Exit

SpecProvider == Init /\ [][NextProvider]_vars

(***************************************************************************)
(* Vocabulary of the properties                                            *)
(***************************************************************************)
\* the words of a stored name
WordsOf(n) == {n[i] : i \in 1..Len(n)} \ {" "}

Shared(a, b) == Cardinality(WordsOf(a) \cap WordsOf(b))

Pooled(a, b) == Cardinality(WordsOf(a) \cup WordsOf(b))

\* token overlap of two stored names is at least 0.6
Overlaps(a, b) == Pooled(a, b) > 0 /\ 10 * Shared(a, b) >= 6 * Pooled(a, b)

\* the name the last resolve_item call asked for, in stored form
Asked == NameOf(call.generic_name)

ExactRows == {i \in 1..Len(preferences) : preferences[i].generic_name = Asked}

FuzzyRows ==
    {i \in 1..Len(preferences) : Overlaps(preferences[i].generic_name, Asked)}

\* the product a preference row stands for
StoredProduct(row) ==
    [stockcode |-> row.stockcode, name |-> row.product_name,
     brand |-> row.brand, package_size |-> row.package_size,
     price |-> row.last_price]

FromPreference ==
    /\ ret # None
    /\ ret[1].resolved
    /\ ret[1].source = "preference"
    /\ searches = <<>>

(***************************************************************************)
(* Properties of Spec                                                      *)
(***************************************************************************)
\* C1: when a preference is stored under the lower-cased, trimmed query,
\* resolve_item returns resolved, source "preference" and the stored product,
\* and sends nothing to the provider.
C1_ExactPreferenceShortCircuits ==
    pc = "resolve_item" =>
        \A i \in ExactRows :
            /\ FromPreference
            /\ ret[1].product = Some(StoredProduct(preferences[i]))

C1_Witness ==
    /\ pc = "resolve_item"
    /\ ExactRows # {}
    /\ call.generic_name \notin Names
    /\ call.provider.ok
    /\ call.provider.products # <<>>
    /\ FromPreference

\* C2: without an exact preference, resolve_item answers from a preference,
\* with no provider call, exactly when some stored name overlaps the query by
\* at least 0.6; otherwise it calls the provider search.
C2_FuzzyOnlyAtThreshold ==
    (pc = "resolve_item" /\ ExactRows = {}) =>
        /\ FromPreference <=> FuzzyRows # {}
        /\ FuzzyRows = {} => Len(searches) = 1

C2_Witness ==
    /\ pc = "resolve_item"
    /\ ExactRows = {}
    /\ \E i \in 1..Len(preferences) :
          /\ Cardinality(WordsOf(preferences[i].generic_name)) = 3
          /\ Cardinality(WordsOf(Asked)) = 1
          /\ Shared(preferences[i].generic_name, Asked) = 1
    /\ Len(searches) = 1

\* C3: among the stored names that overlap the query by at least 0.6, the
\* fuzzy stage answers with one of the highest purchase_count, whatever the
\* overlaps are.
C3_FuzzyTakesMostUsed ==
    (pc = "resolve_item" /\ ExactRows = {} /\ FuzzyRows # {}) =>
        \E i \in FuzzyRows :
            /\ ret # None
            /\ ret[1].product = Some(StoredProduct(preferences[i]))
            /\ \A j \in FuzzyRows :
                  preferences[j].purchase_count
                      <= preferences[i].purchase_count

C3_Witness ==
    /\ pc = "resolve_item"
    /\ ExactRows = {}
    /\ \E i, j \in FuzzyRows :
          /\ ret[1].product = Some(StoredProduct(preferences[i]))
          /\ ret[1].product # Some(StoredProduct(preferences[j]))
          /\ preferences[j].purchase_count < preferences[i].purchase_count
          /\ Shared(preferences[i].generic_name, Asked)
                * Pooled(preferences[j].generic_name, Asked)
             < Shared(preferences[j].generic_name, Asked)
                * Pooled(preferences[i].generic_name, Asked)

\* C5: when no preference matches and the provider search fails or returns
\* nothing, resolve_item returns the unresolved dict with no product and no
\* candidates; no exception leaves the call.
C5_ProviderFailureIsUnresolved ==
    (/\ pc = "resolve_item"
     /\ ExactRows = {}
     /\ FuzzyRows = {}
     /\ (~call.provider.ok \/ call.provider.products = <<>>)) =>
        /\ ret # None
        /\ ret[1] = [resolved |-> FALSE, product |-> None,
                     candidates |-> <<>>, source |-> "unresolved",
                     generic_name |-> Asked, quantity |-> call.quantity]

C5_Witness ==
    /\ pc = "resolve_item"
    /\ preferences # <<>>
    /\ ~call.provider.ok
    /\ Len(searches) = 1
    /\ ret # None
    /\ ret[1].source = "unresolved"

\* C10: once learn_preference has stored a product under a name, and until
\* the name is deleted or learned again, resolve_item of any spelling of the
\* name returns that product from the preference, with no provider call.
C10_LearnedNameResolves ==
    (pc = "resolve_item" /\ learned[Asked] # None) =>
        /\ FromPreference
        /\ ret[1].product # None
        /\ ret[1].product[1].stockcode = learned[Asked][1]

C10_Witness ==
    /\ pc = "resolve_item"
    /\ learned[Asked] # None
    /\ \A g \in LearnNames : NameOf(g) = Asked => g # call.generic_name
    /\ Len(preferences) > 1
    /\ FromPreference

(***************************************************************************)
(* Properties of SpecSearch                                                *)
(***************************************************************************)
\* the last resolve_item call scored a non-empty provider response
Ranked ==
    /\ pc = "resolve_item"
    /\ Len(searches) = 1
    /\ call.provider.ok
    /\ call.provider.products # <<>>

Offered == call.provider.products

\* the score of every offer
OfferScores ==
    [i \in 1..Len(Offered) |->
        _calculate_relevance(Offered[i], Asked, call.prefer_brand,
                             call.prefer_size, preferences)]

ScoredOffer(i, sc) ==
    [stockcode |-> Offered[i].stockcode, name |-> Offered[i].name,
     brand |-> Offered[i].brand, package_size |-> Offered[i].package_size,
     price |-> Offered[i].price, on_special |-> Offered[i].on_special,
     available |-> Offered[i].available, score |-> sc[i]]

\* the highest of the scores sc
TopScore(sc) == sc[CHOOSE i \in 1..Len(sc) : \A j \in 1..Len(sc) : sc[j] <= sc[i]]

\* top.score - second.score, or 1.0 when there is one candidate
Gap(sc) ==
    IF Len(sc) = 1 THEN ScoreUnit
    ELSE LET top == CHOOSE i \in 1..Len(sc) : \A j \in 1..Len(sc) : sc[j] <= sc[i]
             rest == (1..Len(sc)) \ {top}
             second == CHOOSE i \in rest : \A j \in rest : sc[j] <= sc[i]
         IN  sc[top] - sc[second]

ClearsGate(sc) == 10 * TopScore(sc) >= 4 * ScoreUnit /\ 10 * Gap(sc) >= ScoreUnit

\* the place of offer i in the candidates: after the offers that score
\* higher and after the earlier offers that score the same
Place(i, sc) ==
    1 + Cardinality({j \in 1..Len(sc) :
                        sc[j] > sc[i] \/ (sc[j] = sc[i] /\ j < i)})

\* C4: a non-empty scored list resolves, from the search and to its
\* top-scored candidate, exactly when the top score is at least 0.4 and the
\* gap to the second at least 0.1 (1.0 for a single candidate); otherwise the
\* result is unresolved and carries the first five candidates.
C4_AutoResolveGate ==
    Ranked =>
        LET sc == OfferScores
        IN  /\ ret # None
            /\ IF ClearsGate(sc)
               THEN /\ ret[1].resolved
                    /\ ret[1].source = "search"
                    /\ ret[1].product # None
                    /\ ret[1].product[1].score = TopScore(sc)
                    /\ \E i \in 1..Len(Offered) :
                          ret[1].product[1] = ScoredOffer(i, sc)
               ELSE /\ ~ret[1].resolved
                    /\ ret[1].source = "unresolved"
                    /\ ret[1].product = None
                    /\ Len(ret[1].candidates) = Min(5, Len(Offered))
                    /\ ret[1].candidates[1].score = TopScore(sc)

C4_Witness ==
    /\ Ranked
    /\ Len(Offered) > 1
    /\ 10 * Gap(OfferScores) = ScoreUnit
    /\ ret[1].resolved
    /\ ret[1].source = "search"

\* C6: resolve_item returns either a resolved dict with a product and source
\* "preference" or "search", or an unresolved dict with no product; it never
\* carries more than five candidates, none when the source is "preference",
\* and the returned product first when the source is "search".
C6_ResultShape ==
    pc = "resolve_item" =>
        /\ ret # None
        /\ \/ /\ ret[1].resolved
              /\ ret[1].product # None
              /\ ret[1].source \in {"preference", "search"}
           \/ /\ ~ret[1].resolved
              /\ ret[1].product = None
              /\ ret[1].source = "unresolved"
        /\ Len(ret[1].candidates) <= 5
        /\ ret[1].source = "preference" => ret[1].candidates = <<>>
        /\ ret[1].source = "search" =>
              /\ ret[1].candidates # <<>>
              /\ ret[1].candidates[1] = ret[1].product[1]

C6_Witness ==
    /\ Ranked
    /\ Len(Offered) > 5
    /\ ret[1].source = "search"
    /\ Len(ret[1].candidates) = 5

\* C7: the candidates are the first min(5, n) of the n offers in
\* non-increasing score order, offers of equal score staying in the order
\* the provider gave them.
C7_CandidatesStableTopFive ==
    Ranked =>
        LET sc == OfferScores
        IN  /\ ret # None
            /\ Len(ret[1].candidates) = Min(5, Len(Offered))
            /\ \A i \in 1..Len(Offered) :
                  Place(i, sc) <= 5 =>
                      ret[1].candidates[Place(i, sc)] = ScoredOffer(i, sc)

C7_Witness ==
    /\ Ranked
    /\ Len(Offered) > 5
    /\ LET sc == OfferScores
       IN  /\ \E i, j \in 1..Len(Offered) :
                 /\ i < j
                 /\ sc[i] = sc[j]
                 /\ Offered[i] # Offered[j]
                 /\ Place(j, sc) <= 5
                 /\ Place(i, sc) > 1
           /\ \E i, j \in 1..Len(Offered) : i < j /\ sc[i] < sc[j]

(***************************************************************************)
(* Properties of SpecBatch                                                 *)
(***************************************************************************)
\* what resolve_item returns for request i of the last batch, asked alone
Alone(i) ==
    resolve_item(preferences, call.items[i].generic_name,
                 IF call.items[i].quantity = None THEN 1
                 ELSE call.items[i].quantity[1],
                 call.items[i].prefer_brand, call.items[i].prefer_size,
                 call.providers[i]).ret

\* no stored name matches request i, exactly or by overlap
Unmatched(i) ==
    \A k \in 1..Len(preferences) :
        /\ preferences[k].generic_name # NameOf(call.items[i].generic_name)
        /\ ~Overlaps(preferences[k].generic_name,
                     NameOf(call.items[i].generic_name))

\* C8: resolve_list returns one result per request, in order, each the
\* result resolve_item gives for that request alone.
C8_BatchIsItemwise ==
    pc = "resolve_list" =>
        /\ ret # None
        /\ Len(ret[1]) = Len(call.items)
        /\ \A i \in 1..Len(call.items) :
              /\ Some(ret[1][i]) = Alone(i)
              /\ ret[1][i].generic_name = NameOf(call.items[i].generic_name)
              /\ ret[1][i].quantity =
                    IF call.items[i].quantity = None THEN 1
                    ELSE call.items[i].quantity[1]

C8_Witness ==
    /\ pc = "resolve_list"
    /\ ret # None
    /\ Len(ret[1]) = 2
    /\ ret[1][1].source = "unresolved"
    /\ ret[1][2].source = "preference"
    /\ call.items[1].quantity = None
    /\ call.items[2].quantity # None

\* C9: a request whose provider call fails is returned unresolved, and the
\* other requests of the batch are resolved and returned all the same.
C9_FailureDoesNotAbortBatch ==
    pc = "resolve_list" =>
        \A i \in 1..Len(call.items) :
            (~call.providers[i].ok /\ Unmatched(i)) =>
                /\ ret # None
                /\ Len(ret[1]) = Len(call.items)
                /\ ~ret[1][i].resolved
                /\ ret[1][i].source = "unresolved"
                /\ \A j \in (1..Len(call.items)) \ {i} :
                      Some(ret[1][j]) = Alone(j)

C9_Witness ==
    /\ pc = "resolve_list"
    /\ Len(call.items) = 2
    /\ ~call.providers[1].ok
    /\ Unmatched(1)
    /\ ret # None
    /\ Len(ret[1]) = 2
    /\ ret[1][2].resolved
    /\ ret[1][2].source = "search"

(***************************************************************************)
(* Properties of SpecStore                                                 *)
(***************************************************************************)
\* the rows of prefs stored under key
RowsOf(prefs, key) == {i \in 1..Len(prefs) : prefs[i].generic_name = key}

\* C11: save_preference on a key that is not stored creates its row with
\* purchase_count 1; on a stored key it adds exactly 1 to purchase_count,
\* overwrites stockcode, product name, brand and package size, sets
\* last_price to a given price and keeps it when none is given, and returns
\* the id the row already had.
C11_SaveCreatesThenUpdates ==
    [][(pc = "idle" /\ pc' = "save_preference") =>
        LET key == NameOf(call'.generic_name)
            before == RowsOf(preferences, key)
            after == RowsOf(preferences', key)
            new == preferences'[CHOOSE i \in after : TRUE]
            old == preferences[CHOOSE i \in before : TRUE]
        IN  /\ Cardinality(after) = 1
            /\ new.stockcode = call'.stockcode
            /\ new.product_name = call'.product_name
            /\ new.brand = call'.brand
            /\ new.package_size = call'.package_size
            /\ ret' = <<new.id>>
            /\ IF before = {}
               THEN /\ new.purchase_count = 1
                    /\ new.last_price = call'.price
               ELSE /\ new.purchase_count = old.purchase_count + 1
                    /\ new.last_price = IF call'.price # None
                                        THEN call'.price ELSE old.last_price
                    /\ new.id = old.id]_vars

C11_Witness ==
    /\ pc = "save_preference"
    /\ call.price = None
    /\ \E i \in RowsOf(preferences, NameOf(call.generic_name)) :
          /\ preferences[i].purchase_count = 2
          /\ preferences[i].last_price # None
          /\ preferences[i].stockcode = call.stockcode
          /\ ret = <<preferences[i].id>>

\* C12: whatever save_preference, learn_preference, mark_purchased and
\* delete_preference calls were made, no two stored preferences have the
\* same lower-cased, trimmed name, and every stored name is lower-case and
\* trimmed.
C12_KeysUniqueAndNormalized ==
    /\ \A i \in 1..Len(preferences) :
          /\ preferences[i].generic_name \in Names
          /\ Strip(Lower(preferences[i].generic_name))
                = preferences[i].generic_name
    /\ \A i, j \in 1..Len(preferences) :
          i # j => Strip(Lower(preferences[i].generic_name))
                      # Strip(Lower(preferences[j].generic_name))

C12_Witness ==
    /\ pc = "mark_purchased"
    /\ ret # None
    /\ ret[1].items_logged = 2
    /\ Len(preferences) = 2
    /\ pref_seq > 2
    /\ \E i \in 1..Len(preferences) : preferences[i].purchase_count = 2

\* C13: get_preference and resolve_item find the record of a name under
\* every spelling that is equal to it after lower-casing and trimming, and
\* saves under several such spellings go to one record.
C13_LookupIgnoresCaseAndPadding ==
    /\ pc = "get_preference" =>
          LET rows == RowsOf(preferences, Asked)
          IN  ret = IF rows = {} THEN None
                    ELSE Some(preferences[CHOOSE i \in rows : TRUE])
    /\ pc = "resolve_item" =>
          \A i \in RowsOf(preferences, Asked) :
              /\ ret # None
              /\ ret[1].source = "preference"
              /\ ret[1].product = Some(StoredProduct(preferences[i]))
    /\ \A n \in Names :
          Cardinality({i \in 1..Len(preferences) :
                          Strip(Lower(preferences[i].generic_name)) = n}) <= 1

C13_Witness ==
    /\ pc = "get_preference"
    /\ call.generic_name = Upper(Phrase(<<1, 2>>))
    /\ ret # None
    /\ ret[1].stockcode = 101
    /\ ret[1].last_price # None
    /\ ret[1].purchase_count = 2

\* C14: a resolve_item or resolve_list call leaves table preferences as it
\* found it, rows, fields and purchase counts, whichever way it resolves.
C14_ResolverLeavesStore ==
    [][(pc = "idle" /\ pc' \in {"resolve_item", "resolve_list"}) =>
        /\ preferences' = preferences
        /\ pref_seq' = pref_seq]_vars

C14_Witness ==
    /\ pc = "resolve_list"
    /\ ret # None
    /\ Len(ret[1]) = 2
    /\ ret[1][1].source = "search"
    /\ ret[1][2].source = "unresolved"
    /\ ret[1][2].candidates # <<>>
    /\ preferences # <<>>
    /\ RowsOf(preferences, ret[1][1].generic_name) = {}

(***************************************************************************)
(* Properties of SpecScore                                                 *)
(***************************************************************************)
\* the last call of the scorer
Scoring == pc = "_calculate_relevance"

\* the key the scorer's query stands for; none for a query without tokens
ScoreKey(g) == IF g \in {<<>>, <<" ">>} THEN <<>> ELSE NameOf(g)

\* the preference rows stored for the scorer's query
ScoreRows == RowsOf(preferences, ScoreKey(call.generic_name))

\* the score of the last call's candidate made available or unavailable
TwinScore(available) ==
    _calculate_relevance([call.product EXCEPT !.available = available],
                         call.generic_name, call.prefer_brand,
                         call.prefer_size, preferences)

\* the score of the last call's candidate against an empty store
ScoreWithoutHistory ==
    _calculate_relevance(call.product, call.generic_name, call.prefer_brand,
                         call.prefer_size, <<>>)

C16_UnavailableScoresHalf ==
    Scoring =>
        IF call.product.available
        THEN 2 * TwinScore(FALSE) = ret[1]
        ELSE 2 * ret[1] = TwinScore(TRUE)

C16_Witness ==
    /\ Scoring
    /\ ~call.product.available
    /\ 100 * TwinScore(TRUE) = 95 * ScoreUnit
    /\ 200 * ret[1] = 95 * ScoreUnit

\* C17: the purchase-history term of the score is min(purchase_count / 10,
\* 1.0) * 0.15 when the preference stored for the query names the
\* candidate's stockcode, and 0 otherwise: it grows with purchase_count up
\* to 10 and stays the same from there.
C17_HistoryTermSaturates ==
    (Scoring /\ call.product.available) =>
        LET named == {i \in ScoreRows :
                        preferences[i].stockcode = call.product.stockcode}
            count == preferences[CHOOSE i \in named : TRUE].purchase_count
            term == ret[1] - ScoreWithoutHistory
        IN  IF named = {} THEN term = 0
            ELSE 1000 * term
                    = 15 * ScoreUnit * (IF count < 10 THEN count ELSE 10)

C17_Witness ==
    /\ Scoring
    /\ call.product.available
    /\ \E i \in ScoreRows :
          /\ preferences[i].stockcode = call.product.stockcode
          /\ preferences[i].purchase_count > 10
    /\ 100 * (ret[1] - ScoreWithoutHistory) = 15 * ScoreUnit

\* C18: _jaccard gives the same for (a, b) and (b, a), 1.0 for two equal
\* non-empty sets, 0.0 for disjoint sets and when a set is empty, and
\* |a & b| / |a | b| otherwise, 0.5 for {a,b,c} and {a,b,d}; a query
\* without tokens adds nothing to a score for the name.
C18_JaccardAlgebra ==
    /\ pc = "_jaccard" =>
          LET a == call.a
              b == call.b
          IN  /\ ret[1] = _jaccard(b, a)
              /\ (a = b /\ a # {}) => ret[1] = ScoreUnit
              /\ (a \cap b = {}) => ret[1] = 0
              /\ (a \cap b # {}) =>
                    ret[1] * Cardinality(a \cup b)
                        = ScoreUnit * Cardinality(a \cap b)
              /\ (a = {<<"a">>, <<"b">>, <<"c">>}
                    /\ b = {<<"a">>, <<"b">>, <<"d">>}) =>
                    2 * ret[1] = ScoreUnit
    /\ (/\ Scoring
        /\ call.generic_name \in {<<>>, <<" ">>}
        /\ call.prefer_brand = None
        /\ call.prefer_size = None
        /\ ~call.product.on_special) => ret[1] = 0

C18_Witness ==
    /\ pc = "_jaccard"
    /\ call.a = {<<"a">>, <<"b">>, <<"c">>}
    /\ call.b = {<<"a">>, <<"b">>, <<"d">>}
    /\ 2 * ret[1] = ScoreUnit

(***************************************************************************)
(* Properties of SpecProvider                                              *)
(***************************************************************************)
\* a call that went to the network
WentLive == net # <<>>

\* the entry under the key of the call, if the cache still serves it on the
\* stale read
StaleEntry == cache_get_stale(cache, now, call.cache_key)

\* C19: when the live fetch of search_products or get_product_details
\* fails, the call returns the value of the cache entry for its key whatever
\* that value is, an empty result list included, and it raises RuntimeError
\* only when the cache has no entry to serve for the key
C19_FailedFetchServesEntry ==
    (pc \in {"search_products", "get_product_details"} /\ WentLive
        /\ ~call.response.ok)
    => ret = StaleEntry

\* the requests of a log, and its permits
RECURSIVE CountOf(_, _)
CountOf(log, permits) ==
    IF log = <<>> THEN 0
    ELSE CountOf(Tail(log), permits)
         + (IF (log[1] = "acquire") = permits THEN 1 ELSE 0)

\* C20: in every call of search_products, get_product_details and
\* get_specials each request sent, the homepage request of a new session
\* included, follows its own _limiter.acquire(): at no point of the call have
\* more requests been sent than permits acquired
C20_PermitBeforeEachRequest ==
    \A n \in 0..Len(net) :
        CountOf(SubSeq(net, 1, n), FALSE) <= CountOf(SubSeq(net, 1, n), TRUE)

\* the three fetching functions
Fetchers == {"search_products", "get_product_details", "get_specials"}

\* C29: a failed live fetch of search_products, get_product_details or
\* get_specials leaves every cache entry as it was, value and write time,
\* also when it serves a stale value; it discards the shared session, and a
\* call that reaches the network without a session opens a new one with the
\* homepage request
C29_FailedFetchLeavesCache ==
    [][(pc = "idle" /\ pc' \in Fetchers /\ net' # <<>>)
        => /\ ~call'.response.ok => (cache' = cache /\ session' = FALSE)
           /\ call'.response.ok
                => \A k \in CacheKeys \ {call'.cache_key} : cache'[k] = cache[k]
           /\ ~session => (Len(net') = 3 /\ net'[2] = "GET /")
           /\ session => Len(net') = 2]_vars

\* a failed fetch that found no session, opened one, and served a value
\* written at an earlier instant
C29_Witness ==
    /\ pc \in Fetchers
    /\ ~call.response.ok
    /\ Len(net) = 3
    /\ ret # None
    /\ cache[call.cache_key][1].written_at < now
    /\ ~session

\* C24: once search_products has fetched a value for a key, every further
\* call with that key within the search TTL returns that value, an empty
\* result list included, without a permit and without a request. An entry
\* is in the cache only through a successful live fetch.
C24_FreshEntryServedWithoutPermit ==
    [][(/\ pc = "idle"
        /\ pc' = "search_products"
        /\ cache[call'.cache_key] # None
        /\ now - cache[call'.cache_key][1].written_at <= CACHE_TTL_search)
        => (net' = <<>> /\ ret' = Some(cache[call'.cache_key][1].value))]_vars

\* the kind of value a fetching function caches, and the TTL it reads with
KindOf(fetcher) ==
    CASE fetcher = "search_products" -> "search"
      [] fetcher = "get_product_details" -> "product"
      [] fetcher = "get_specials" -> "specials"

TTLOf(fetcher) ==
    CASE fetcher = "search_products" -> CACHE_TTL_search
      [] fetcher = "get_product_details" -> CACHE_TTL_product
      [] fetcher = "get_specials" -> CACHE_TTL_specials

\* the age of the entry under key k, when there is one
Age(k) == now - cache[k][1].written_at

ScoreUnderHints(prefer_brand, prefer_size) ==
    _calculate_relevance(call.product, call.generic_name, prefer_brand,
                         prefer_size, preferences)

\* C23: a candidate whose brand (resp. package size) is missing, None or the
\* empty string gets nothing from the brand signal (resp. the size signal)
\* when a preferred brand (resp. size) is given: it never scores higher than
\* the same candidate scored without that hint
C23_MissingSignalScoresNothing ==
    Scoring =>
        /\ ~Truthy(call.product.brand)
              => ret[1] <= ScoreUnderHints(None, call.prefer_size)
        /\ ~Truthy(call.product.package_size)
              => ret[1] <= ScoreUnderHints(call.prefer_brand, None)

(***************************************************************************)
(* Further properties of SpecSearch                                        *)
(***************************************************************************)
\* the product a scored candidate was made from
Unscored(c) ==
    [stockcode |-> c.stockcode, name |-> c.name, brand |-> c.brand,
     package_size |-> c.package_size, price |-> c.price,
     on_special |-> c.on_special, available |-> c.available]

\* C28: in a resolve_item call that reaches the scoring stage, with the
\* store unchanged during the call, the purchase-history term is 0 for every
\* candidate: each candidate carries the score it gets against an empty
\* store, since scoring looks up the key the exact-match stage found absent
C28_NoHistoryTermInResolve ==
    Ranked =>
        \A i \in 1..Len(ret[1].candidates) :
            LET c == ret[1].candidates[i]
            IN  c.score = _calculate_relevance(Unscored(c), Asked,
                              call.prefer_brand, call.prefer_size, <<>>)

\* the call scored a candidate whose product the store holds under another
\* name
C28_Witness ==
    /\ Ranked
    /\ \E i \in 1..Len(ret[1].candidates), k \in 1..Len(preferences) :
          preferences[k].stockcode = ret[1].candidates[i].stockcode

(***************************************************************************)
(* Properties of SpecLists                                                 *)
(***************************************************************************)
\* the rows of list_items of a list whose name normalizes to a key
RowsNamed(list_id, key) ==
    {i \in 1..Len(list_items) :
        /\ list_items[i].list_id = list_id
        /\ Strip(Lower(list_items[i].generic_name)) = key}

\* C25: a list holds at most one row per normalized (stripped, lower-cased)
\* name, and the quantity of that row is the sum of the quantities of the
\* add_list_item calls made for the name, under any spelling, since the row
\* was last absent.
C25_OneRowPerNameSummingQuantities ==
    \A l \in 1..(MaxLists + 1), n \in Names :
        /\ Cardinality(RowsNamed(l, n)) <= 1
        /\ \A i \in RowsNamed(l, n) : list_items[i].quantity = added[<<l, n>>]

\* an add under another spelling has been merged into a row that is not the
\* first the table was given, and has brought its quantity to the bound
C25_Witness ==
    /\ pc = "add_list_item"
    /\ call.generic_name # Strip(Lower(call.generic_name))
    /\ ret # None
    /\ \E i \in 1..Len(list_items) :
          /\ list_items[i].id = ret[1]
          /\ list_items[i].id > 1
          /\ list_items[i].quantity = MaxListQty
          /\ list_items[i].quantity > call.quantity

\* the rows of a list that have a stockcode
Stocked(list_id) ==
    {i \in 1..Len(list_items) :
        /\ list_items[i].list_id = list_id
        /\ list_items[i].stockcode # None}

\* the purchase_count stored for a name, 0 when there is no row
PurchaseCount(prefs, key) ==
    LET rows == {i \in 1..Len(prefs) : prefs[i].generic_name = key}
    IN  IF rows = {} THEN 0 ELSE prefs[CHOOSE i \in rows : TRUE].purchase_count

\* C26: mark_purchased on a list that exists creates exactly one order, one
\* order item of that order and one preference save for every item of the
\* list that has a stockcode, returns that number as items_logged and
\* leaves the list with status 'purchased'; on a list that does not exist
\* it raises ValueError and changes no table.
C26_MarkPurchasedStep ==
    (pc = "idle" /\ pc' = "mark_purchased") =>
        LET l == call'.list_id
            stocked == Stocked(l)
            fresh == (Len(order_items) + 1)..Len(order_items')
        IN  IF \E i \in 1..Len(lists) : lists[i].id = l
            THEN /\ Len(orders') = Len(orders) + 1
                 /\ SubSeq(orders', 1, Len(orders)) = orders
                 /\ orders'[Len(orders')].list_id = l
                 /\ Len(order_items') = Len(order_items) + Cardinality(stocked)
                 /\ SubSeq(order_items', 1, Len(order_items)) = order_items
                 /\ \A k \in fresh :
                       order_items'[k].order_id = orders'[Len(orders')].id
                 /\ \A i \in stocked :
                       Cardinality({k \in fresh :
                           /\ order_items'[k].generic_name
                                = list_items[i].generic_name
                           /\ order_items'[k].stockcode
                                = list_items[i].stockcode}) = 1
                 /\ \A n \in Names :
                       PurchaseCount(preferences', n)
                         = PurchaseCount(preferences, n)
                           + Cardinality({i \in stocked :
                                            list_items[i].generic_name = n})
                 /\ Len(preferences') <= Len(preferences) + Cardinality(stocked)
                 /\ ret' # None
                 /\ ret'[1].items_logged = Cardinality(stocked)
                 /\ ret'[1].order_id = orders'[Len(orders')].id
                 /\ \A i \in 1..Len(lists') :
                       lists'[i].id = l => lists'[i].status = "purchased"
            ELSE /\ ret' = None
                 /\ UNCHANGED <<preferences, pref_seq, lists, list_items,
                                orders, order_items, price_history>>

C26_MarkPurchased == [][C26_MarkPurchasedStep]_vars

\* a list of two items, one of them with a stockcode, has been purchased, and
\* the preference of that item has been counted a second time
C26_Witness ==
    /\ pc = "mark_purchased"
    /\ ret # None
    /\ ret[1].items_logged = 1
    /\ Cardinality({i \in 1..Len(list_items) :
                       list_items[i].list_id = call.list_id}) = 2
    /\ Len(order_items) = 1
    /\ \E i \in 1..Len(preferences) :
          /\ preferences[i].generic_name = order_items[1].generic_name
          /\ preferences[i].purchase_count = 2

(***************************************************************************)
(* Properties of SpecCart                                                  *)
(***************************************************************************)
\* the calls of a log to one function of woolworths
CallsTo(calls, function) ==
    {k \in 1..Len(calls) : calls[k][1] = function}

\* the rows of a list that are resolved to a stockcode
ResolvedRows(list_id) ==
    {i \in 1..Len(list_items) :
        /\ list_items[i].list_id = list_id
        /\ list_items[i].resolved = 1
        /\ list_items[i].stockcode # None}

IsActive(list_id) ==
    \E i \in 1..Len(lists) :
        lists[i].id = list_id /\ lists[i].status = "active"

\* a step of build_cart without confirm calls nothing
PreviewCallsNothing ==
    /\ trolley_calls' = <<>>
    /\ net' = <<>>
    /\ cache' = cache

\* the return value is the preview
ReturnsPreview ==
    /\ "preview" \in DOMAIN ret'[1]
    /\ ret'[1].preview
    /\ ret'[1].added = 0

\* build_cart with confirm adds only for an active list after
\* validate_session has reported a valid session; then it attempts every
\* resolved item, in the order of the list and whatever the earlier adds did,
\* and added and failed together count the resolved items
ConfirmedAdds ==
    LET l == call'.list_id
        adds == CallsTo(trolley_calls', "add_to_trolley")
        valid == validate_session(cache, now, call'.cookies,
                                  call'.response).valid
    IN  /\ adds # {} =>
              /\ IsActive(l)
              /\ valid
              /\ trolley_calls'[1] = <<"validate_session">>
              /\ CallsTo(trolley_calls', "validate_session") = {1}
        /\ (IsActive(l) /\ valid /\ ResolvedRows(l) # {}) =>
              /\ Cardinality(adds) = Cardinality(ResolvedRows(l))
              /\ \A i \in ResolvedRows(l) : \E k \in adds :
                    /\ trolley_calls'[k][2] = list_items[i].stockcode[1]
                    /\ trolley_calls'[k][3] = list_items[i].quantity
              /\ ~ret'[1].preview
              /\ ret'[1].added + Len(ret'[1].failed)
                    = Cardinality(ResolvedRows(l))
              /\ Len(ret'[1].failed)
                    = Cardinality({k \in 1..Cardinality(adds) :
                            ~call'.cookies \/ k \in call'.failing})

\* C27 as stated: build_cart with confirm=False never calls add_to_trolley
\* or validate_session and returns preview=True with added=0; with
\* confirm=True it adds only for an active list after a valid session,
\* attempts every resolved item even when an earlier add fails, and returns
\* added + len(failed) equal to the number of resolved items.
C27_Original_Step ==
    (pc = "idle" /\ pc' = "build_cart") =>
        IF call'.confirm THEN ConfirmedAdds
        ELSE PreviewCallsNothing /\ ReturnsPreview

C27_Original == [][C27_Original_Step]_vars

\* C27, amended: build_cart with confirm=False never calls add_to_trolley
\* or validate_session, and returns preview=True with added=0 exactly when
\* the list is active and has a resolved item (it returns success=False
\* without a preview otherwise); with confirm=True it is as stated.
C27_BuildCart_Step ==
    (pc = "idle" /\ pc' = "build_cart") =>
        IF call'.confirm THEN ConfirmedAdds
        ELSE /\ PreviewCallsNothing
             /\ IF IsActive(call'.list_id)
                   /\ ResolvedRows(call'.list_id) # {}
                THEN ReturnsPreview
                ELSE ret'[1] \in [success : {FALSE}, message : STRING]

C27_BuildCart == [][C27_BuildCart_Step]_vars

\* a cart of two items has been built, the first add failed and the second
\* succeeded
C27_Witness ==
    /\ pc = "build_cart"
    /\ call.confirm
    /\ Len(trolley_calls) = 3
    /\ ret[1].added = 1
    /\ Len(ret[1].failed) = 1
    /\ ret[1].failed[1].generic_name = ret[1].items[1].generic_name

(***************************************************************************)
(* Properties of SpecLimiter                                               *)
(***************************************************************************)
\* the permits given in the window of one period that ends age ticks ago
PermitsIn(age) ==
    {k \in 1..Len(granted) :
        granted[k] \in age..(age + TicksPerPeriod - 1)}

\* no rolling window of one period holds more than 5 permits
WithinRate ==
    \A age \in 0..TicksPerPeriod :
        Cardinality(PermitsIn(age)) <= WOOLWORTHS_RATE_LIMIT_CALLS

\* acquire() has no outcome but to wait and to return
OnlyDelays == \A t \in Threads : thread[t] \in {"idle", "waiting", "acquired"}

Quiescent == \A p \in Processes : conn[p].pc \in {"idle", "returned"}

\* C30: when two processes with a connection each run save_preference
\* concurrently for the same name, under every interleaving both calls
\* complete without raising and the store ends with exactly one row for the
\* name whose purchase_count has grown by one per call: no save is lost and
\* none fails, also when both find the name absent before either inserts.
C30_ConcurrentSavesAllCount ==
    /\ \A p \in Processes : conn[p].pc # "raised"
    /\ Quiescent =>
          \A n \in Names :
              /\ Cardinality(RowsOf(preferences, n)) <= 1
              /\ PurchaseCount(preferences, n) = started[n]

====
